---- MODULE Spec2Model ----
(***************************************************************************)
(* StreamFlow proxy: the signed-URL endpoint, the verifier, the admission  *)
(* counter and the upstream fetch of the two deployment shapes, the        *)
(* long-lived Node server (server.js, src/unnamed/part_001) and the edge   *)
(* function (api/server.js, src/unnamed/part_003 lines 1-246).             *)
(*                                                                         *)
(* Strings are TLA+ strings; a character of s is SubSeq(s, i, i).          *)
(* A query parameter that is absent (searchParams.get gives null) is the   *)
(* empty string: every test the handlers make on a parameter is `!value`,  *)
(* which null and "" answer alike.                                         *)
(***************************************************************************)
EXTENDS Integers, Sequences, FiniteSets, TLC

\* ------------------------------------------------------------------------
\* Program constants
\* ------------------------------------------------------------------------

MAX_SKEW_SECONDS == 300

MAX_REDIRECTS == 5

\* The ceiling of the admission counter. The source sets 200 (server) and
\* 100 (edge); the handlers only ever compare the counter with it, and the
\* model runs them against a small ceiling so that the ceiling is reached.
MAX_CONCURRENT == 1

\* process.env.STREAM_SECRET || 'dev-secret-key-change-in-production'
DEFAULT_SECRET == "dev-secret-key-change-in-production"

\* ------------------------------------------------------------------------
\* Strings
\* ------------------------------------------------------------------------

\* The element of a set of one element: { F(x) : x \in {e} } computes e once,
\* however often F reads it.
The(S) == CHOOSE x \in S : TRUE

CharAt(s, i) == SubSeq(s, i, i)

Drop(s, n) == SubSeq(s, n + 1, Len(s))

\* s.indexOf(c): the first position of character c in s, 0 when there is
\* none.
IndexOf(s, c) ==
    LET at == {i \in 1..Len(s) : CharAt(s, i) = c}
    IN  IF at = {} THEN 0 ELSE CHOOSE i \in at : \A j \in at : i <= j

DigitChars == <<"0", "1", "2", "3", "4", "5", "6", "7", "8", "9">>

IsDigit(c) == \E d \in 1..10 : DigitChars[d] = c

DigitValue(c) == (CHOOSE d \in 1..10 : DigitChars[d] = c) - 1

\* `${timestamp}`: the decimal digits of a number.
RECURSIVE NumberToString(_)
NumberToString(n) ==
    IF n < 0 THEN "-" \o NumberToString(0 - n)
    ELSE IF n < 10 THEN DigitChars[n + 1]
    ELSE NumberToString(n \div 10) \o DigitChars[(n % 10) + 1]

\* The value of the longest run of digits that starts s, as
\* [digits |-> how many, value |-> their number].
RECURSIVE DigitPrefix(_, _, _)
DigitPrefix(s, i, acc) ==
    IF i <= Len(s) /\ IsDigit(CharAt(s, i))
    THEN DigitPrefix(s, i + 1, [digits |-> acc.digits + 1,
                                value |-> acc.value * 10 + DigitValue(CharAt(s, i))])
    ELSE acc

RECURSIVE TrimLeft(_)
TrimLeft(s) == IF s # "" /\ CharAt(s, 1) = " " THEN TrimLeft(Drop(s, 1)) ELSE s

\* parseInt(s, 10): leading white space is skipped, then an optional sign,
\* then the digits up to the first character that is not one; what follows
\* is ignored. No digit at all gives NaN.
parseInt(s) ==
    LET body == TrimLeft(s)
        neg  == body # "" /\ CharAt(body, 1) = "-"
        sgn  == body # "" /\ CharAt(body, 1) \in {"-", "+"}
        p    == DigitPrefix(IF sgn THEN Drop(body, 1) ELSE body, 1,
                            [digits |-> 0, value |-> 0])
    IN  IF p.digits = 0 THEN [nan |-> TRUE, value |-> 0]
        ELSE [nan |-> FALSE, value |-> IF neg THEN 0 - p.value ELSE p.value]

\* Math.abs
Abs(x) == IF x < 0 THEN 0 - x ELSE x

\* ------------------------------------------------------------------------
\* encodeURIComponent and URLSearchParams
\* ------------------------------------------------------------------------

\* The characters of the model's strings that encodeURIComponent escapes,
\* with their escapes. Every other character of the model's strings is
\* a letter, a digit or one of - _ . ! ~ * ' ( ), which it leaves alone.
EscapeTable ==
    << <<":", "%3A">>, <<"/", "%2F">>, <<"?", "%3F">>, <<"&", "%26">>,
       <<"=", "%3D">>, <<"+", "%2B">>, <<"%", "%25">>, <<"|", "%7C">>,
       <<" ", "%20">>, <<";", "%3B">>, <<"#", "%23">> >>

Escaped(c) ==
    IF \E k \in 1..Len(EscapeTable) : EscapeTable[k][1] = c
    THEN (EscapeTable[CHOOSE k \in 1..Len(EscapeTable) : EscapeTable[k][1] = c])[2]
    ELSE c

\* The escapes of the characters lo..hi of s, joined.
RECURSIVE EscapedRange(_, _, _)
EscapedRange(s, lo, hi) ==
    IF lo > hi THEN ""
    ELSE IF lo = hi THEN Escaped(CharAt(s, lo))
    ELSE EscapedRange(s, lo, (lo + hi) \div 2)
         \o EscapedRange(s, ((lo + hi) \div 2) + 1, hi)

encodeURIComponent(s) == EscapedRange(s, 1, Len(s))

\* An escape of the table starts at position i of s.
EscapeAt(s, i) ==
    /\ i >= 1 /\ i + 2 <= Len(s)
    /\ CharAt(s, i) = "%"
    /\ \E k \in 1..Len(EscapeTable) : EscapeTable[k][2] = SubSeq(s, i, i + 2)

\* What position i of s decodes to: the character of the escape that starts
\* there, nothing inside an escape (its two digits, neither of which is a
\* %, so that no escape starts inside another), a space for a +, and the
\* character itself otherwise, a % that starts no escape included.
DecodedAt(s, i) ==
    IF EscapeAt(s, i)
    THEN (EscapeTable[CHOOSE k \in 1..Len(EscapeTable) :
                          EscapeTable[k][2] = SubSeq(s, i, i + 2)])[1]
    ELSE IF EscapeAt(s, i - 1) \/ EscapeAt(s, i - 2) THEN ""
    ELSE IF CharAt(s, i) = "+" THEN " "
    ELSE CharAt(s, i)

RECURSIVE DecodedRange(_, _, _)
DecodedRange(s, lo, hi) ==
    IF lo > hi THEN ""
    ELSE IF lo = hi THEN DecodedAt(s, lo)
    ELSE DecodedRange(s, lo, (lo + hi) \div 2)
         \o DecodedRange(s, ((lo + hi) \div 2) + 1, hi)

\* The application/x-www-form-urlencoded decoding URLSearchParams applies to
\* a name or a value: + is a space, %XX is its character, anything else
\* stands for itself.
FormDecode(s) == DecodedRange(s, 1, Len(s))

\* url.searchParams.get(name) on the text after the "?": the pairs are split
\* at "&", each at its first "=", and the first pair of that name gives the
\* value.
RECURSIVE SearchParamsGet(_, _)
SearchParamsGet(query, name) ==
    IF query = "" THEN ""
    ELSE LET amp  == IndexOf(query, "&")
             pair == IF amp = 0 THEN query ELSE SubSeq(query, 1, amp - 1)
             rest == IF amp = 0 THEN "" ELSE Drop(query, amp)
             eq   == IndexOf(pair, "=")
             key  == FormDecode(IF eq = 0 THEN pair ELSE SubSeq(pair, 1, eq - 1))
             val  == FormDecode(IF eq = 0 THEN "" ELSE Drop(pair, eq))
         IN  IF pair # "" /\ key = name THEN val ELSE SearchParamsGet(rest, name)

\* new URL(req.url, base) of a request target: the path before the first
\* "?", the query after it.
Pathname(target) ==
    LET q == IndexOf(target, "?")
    IN  IF q = 0 THEN target ELSE SubSeq(target, 1, q - 1)

Query(target) ==
    LET q == IndexOf(target, "?")
    IN  IF q = 0 THEN "" ELSE Drop(target, q)

\* ------------------------------------------------------------------------
\* Signer and verifier helpers
\* ------------------------------------------------------------------------

Scheme(value) ==
    LET c == IndexOf(value, ":")
    IN  IF c = 0 THEN "" ELSE SubSeq(value, 1, c - 1)

RECURSIVE StripSlashes(_)
StripSlashes(s) ==
    IF s # "" /\ CharAt(s, 1) = "/"
    THEN The({StripSlashes(rest) : rest \in {Drop(s, 1)}})
    ELSE s

\* The host of a URL of a special scheme: what follows the scheme's colon and
\* any slashes, up to the path, the query or the fragment.
RECURSIVE UpToDelimiter(_)
UpToDelimiter(s) ==
    IF s = "" \/ CharAt(s, 1) \in {"/", "?", "#"} THEN ""
    ELSE CharAt(s, 1) \o The({UpToDelimiter(rest) : rest \in {Drop(s, 1)}})

Host(value) ==
    The({UpToDelimiter(authority) :
            authority \in {StripSlashes(rest) :
                              rest \in {Drop(value, IndexOf(value, ":"))}}})

\* url.hostname: the host without its port.
Hostname(value) ==
    The({IF IndexOf(h, ":") = 0 THEN h ELSE SubSeq(h, 1, IndexOf(h, ":") - 1) :
            h \in {Host(value)}})

\* url.host: the host with its port, which the URL parser drops when it is
\* the default of the scheme.
URLHost(value) ==
    The({The({IF port = "" \/ (Scheme(value) = "http" /\ port = "80")
                 \/ (Scheme(value) = "https" /\ port = "443")
              THEN IF IndexOf(h, ":") = 0 THEN h
                   ELSE SubSeq(h, 1, IndexOf(h, ":") - 1)
              ELSE h :
                  port \in {IF IndexOf(h, ":") = 0 THEN ""
                            ELSE Drop(h, IndexOf(h, ":"))}}) :
            h \in {Host(value)}})

\* new URL(location, base).toString() for the Locations of the model: an
\* absolute URL is kept, a path takes the scheme and the host of the base.
ResolveLocation(location, base) ==
    IF Scheme(location) \in {"http", "https"} THEN location
    ELSE Scheme(base) \o "://" \o URLHost(base) \o location

\* The Location of the n-th redirect of a chain: another host on a port of
\* its own, a path on the same host, and a third host.
LocationOf(n) ==
    IF n % 3 = 1 THEN "https://b:8443/w"
    ELSE IF n % 3 = 2 THEN "/x"
    ELSE "http://c/y"

\* The Referer of every upstream request built from the URL the client
\* asked for: the properties of the upstream headers must tell it from the
\* Referer of the hop.
RefererOfOrigin(url, first) ==
    Scheme(first) \o "://" \o URLHost(first) \o "/"

\* 'Referer': `${src.protocol}//${src.host}/`, with src (target in the edge
\* function) the URL of the hop.
Referer(url, first) == Scheme(url) \o "://" \o URLHost(url) \o "/"

\* 'Referer': `${src.protocol}//${src.hostname}/` of the older server.
LegacyReferer(url) == Scheme(url) \o "://" \o Hostname(url) \o "/"

\* new URL(value) throws for a string with no scheme, and for an http(s) URL
\* with an empty host or a forbidden host character; the protocol test then
\* keeps http: and https: only.
isValidHttpUrl(value) ==
    /\ Scheme(value) \in {"http", "https"}
    /\ Host(value) # ""
    /\ \A c \in {" ", "|", "%"} : IndexOf(Host(value), c) = 0

\* HMAC-SHA256 in base64, as an ideal keyed function: two digests are equal
\* exactly when their keys and their messages are. Like base64 text, the
\* digest holds "+", "/" and "=", which a query string must escape.
hmacSHA256(message, secret) == "mac+" \o secret \o "/" \o message \o "="

\* A message that leaves the nonce out: the properties of tampering must
\* tell it from the code's message.
SignedMessageWithoutNonce(url, t, nonce) == url \o "|" \o t

\* `${url}|${timestamp}|${nonce}`
SignedMessage(url, t, nonce) == url \o "|" \o t \o "|" \o nonce

\* The expiry test with >= for >, which turns a token away at exactly
\* MAX_SKEW_SECONDS: the round trip must tell it from the code's test.
LinkExpiredAtSkew(clock, ts) ==
    /\ ~ts.nan
    /\ Abs(clock - ts.value) >= MAX_SKEW_SECONDS

\* Math.abs(now - timestamp) > MAX_SKEW_SECONDS, false when timestamp is NaN.
LinkExpired(clock, ts) ==
    /\ ~ts.nan
    /\ Abs(clock - ts.value) > MAX_SKEW_SECONDS

\* The signed URL the signing endpoint answers with.
SignedUrl(base, url, timestamp, nonce, signature) ==
    base \o "?url=" \o encodeURIComponent(url) \o "&t=" \o NumberToString(timestamp)
         \o "&nonce=" \o nonce \o "&sig=" \o encodeURIComponent(signature)

\* What a handler decides for a request before it acts on it: "answer" (a
\* whole response), "sign" (answer with a signed URL), "admit" (count the
\* request and start proxying), "digest" (edge: go on after the digest).
Decision(kind, status, error) ==
    [kind |-> kind, status |-> status, error |-> error, retryAfter |-> ""]

Answer(status, error) == Decision("answer", status, error)

\* The checks with the expiry tested before the URL: the properties of the
\* order of the checks must tell it from the code's order.
SecurityChecksExpiryFirst(key, targetUrl, t, nonce, sig, clock) ==
    IF key = "" \/ t = "" \/ nonce = "" \/ sig = ""
    THEN Answer(403, "Unauthorized")
    ELSE IF LinkExpired(clock, parseInt(t))
    THEN Answer(403, "Link expired")
    ELSE IF ~isValidHttpUrl(targetUrl)
    THEN Answer(400, "Invalid URL")
    ELSE Answer(0, "ok")

\* The checks of the proxy endpoint between the health probe and admission,
\* in the order of the code; "ok" when none rejects. The edge function also
\* answers Unauthorized when it has no secret (`!STREAM_SECRET`).
SecurityChecks(key, targetUrl, t, nonce, sig, clock) ==
    IF key = "" \/ t = "" \/ nonce = "" \/ sig = ""
    THEN Answer(403, "Unauthorized")
    ELSE IF ~isValidHttpUrl(targetUrl)
    THEN Answer(400, "Invalid URL")
    ELSE IF LinkExpired(clock, parseInt(t))
    THEN Answer(403, "Link expired")
    ELSE Answer(0, "ok")

\* A verifier that takes any signature: the properties of the upstream
\* requests must tell it from the code's comparison.
AnySignature(key, targetUrl, t, nonce, sig) == TRUE

\* if (sig !== expectedSig), with expectedSig the digest of
\* `${targetUrl}|${t}|${nonce}` under the secret.
SignatureMatches(key, targetUrl, t, nonce, sig) ==
    sig = hmacSHA256(SignedMessage(targetUrl, t, nonce), key)

\* ------------------------------------------------------------------------
\* Bounds of the model
\* ------------------------------------------------------------------------

\* Client connections the model follows at once; a finished one is reused
\* by a later request.
NumConns == 2

\* Tokens the signing endpoint issues in one run.
MaxSigned == 1

\* The clock's readings: an instant, the second before it, and the instants
\* MAX_SKEW_SECONDS and MAX_SKEW_SECONDS + 1 after it.
Epoch == 100

Times == {Epoch - 1, Epoch, Epoch + MAX_SKEW_SECONDS, Epoch + MAX_SKEW_SECONDS + 1}

Conns == 1..NumConns

\* ------------------------------------------------------------------------
\* State
\* ------------------------------------------------------------------------

VARIABLES
    shape,           \* "server" (part_001) or "edge" (part_003): fixed
    secret,          \* STREAM_SECRET, "" when the environment sets none
    serverUp,        \* FALSE once process.exit(1) has run
    now,             \* Math.floor(Date.now() / 1000)
    activeRequests,  \* let activeRequests = 0
    signed,          \* the tokens the signing endpoint has answered with
    req,             \* per connection: the request it carries
    player           \* the page of StreamFlowPlayer (src/player.js)

vars == <<shape, secret, serverUp, now, activeRequests, signed, req, player>>

\* A connection with no request yet. Fields of the request and its response:
\*   pc         new | sent (the request waits for the handler) | hmac (edge: awaiting the digest) | headers (an upstream
\*              request awaits its response) | relay (the body is being
\*              relayed) | done
\*   method, target, body, chain   what the client sent, and how many
\*              redirects the upstream of its target answers with
\*   origin     what that upstream answers with after its redirects
\*   status, error, retryAfter, reply   the response: status 0 is none yet
\*   headers    the headers of the response (of the HeaderNames)
\*   relayed    the response has been given the upstream's body to relay
\*   ended      calls of res.end()
\*   upstream   none | open | destroyed: the current upstream request
\*   redirects  redirects followed
\*   settled    the promise of proxyVideo has settled
\*   pendingError, pendingPipeline   an 'error' event of the upstream
\*              request, resp. the pipeline's callback with an error, is due
\*   clientClosed   the client has disconnected
\*   fault      the error the proxy operation ended with, "" for none
\*   isResolved (older server) the flag of safeResolve / safeReject
\* and the bookkeeping the properties read:
\*   arrivedAt  the clock when the handler ran
\*   admitted   activeRequests was incremented for this request
\*   released   how often it was decremented for it
\*   fetches    upstream requests issued for it
\*   upMethods  the methods of these upstream requests
\*   timer      ms left on the timeout of the upstream request in progress,
\*              0 when none is armed
\*   waited     ms this upstream request has been silent
\*   elapsed    ms the upstream requests of the operation have been silent
\*              together
\*   abandoned  upstream requests given up for the redirect they answered
\*   range      the Range header of the client, "" when it sent none
\*   current    the URL of the upstream request in progress
\*   sent       the upstream requests issued, each with its URL, its Referer
\*              and its Range ("" for none)
\*   closedAt   where the request was (pc) when the client disconnected
NoBody == [json |-> FALSE, url |-> ""]

\* The header names the model follows, in lower case as Node and the Headers
\* class keep them. A set of headers is a function from them to the value,
\* "" for a header that is not there.
HeaderNames ==
    {"content-type", "content-length", "content-range", "accept-ranges",
     "cache-control", "set-cookie", "access-control-allow-origin"}

NoHeaders == [h \in HeaderNames |-> ""]

\* The headers every response starts from: res.setHeader(...) at the head
\* of the server's handler, corsHeaders in the edge function.
DefaultHeaders ==
    [NoHeaders EXCEPT !["access-control-allow-origin"] = "*",
                      !["accept-ranges"] = "bytes"]

\* The allow-list with set-cookie let through: the properties of the
\* forwarded headers must tell it from the code's list.
ForwardedAndCookies ==
    {"content-type", "content-length", "content-range", "accept-ranges",
     "set-cookie"}

\* for (const h of ['content-type', 'content-length', 'content-range',
\* 'accept-ranges'])
ForwardedHeaders ==
    {"content-type", "content-length", "content-range", "accept-ranges"}

\* outHeaders: the allow-listed headers the upstream sent with a value.
OutHeaders(up) ==
    [h \in HeaderNames |-> IF h \in ForwardedHeaders THEN up[h] ELSE ""]

\* clientRes.writeHead(status, outHeaders) after res.setHeader: a header
\* given to writeHead replaces the one set before under the same name.
ServerHeaders(up) ==
    [h \in HeaderNames |->
        IF OutHeaders(up)[h] # "" THEN OutHeaders(up)[h] ELSE DefaultHeaders[h]]

\* new Response(body, { headers }) with headers = { ...corsHeaders } and
\* headers[h] = v under the lower-case names: the object then holds
\* 'Accept-Ranges' and 'accept-ranges' both, and the Headers class joins the
\* values of one name with ", ".
EdgeHeaders(up) ==
    [h \in HeaderNames |->
        IF OutHeaders(up)[h] = "" THEN DefaultHeaders[h]
        ELSE IF DefaultHeaders[h] = "" THEN OutHeaders(up)[h]
        ELSE DefaultHeaders[h] \o ", " \o OutHeaders(up)[h]]

\* The answer of the upstream at the end of its redirects: a status and
\* headers. The upstream of a request that says nothing else answers so.
DefaultOrigin ==
    [status  |-> 200,
     headers |-> [NoHeaders EXCEPT !["content-type"] = "video/mp4",
                                   !["content-length"] = "100"]]

\* The response has a body to relay: `clientReq.method === 'HEAD'` ends the
\* response of the server after its head, and gives the Response of the edge
\* function a null body.
AlwaysBody(method) == TRUE

HasBody(method) == method # "HEAD"

\* An upstream request with the method of the client, whatever it is: the
\* properties of the upstream method must tell it from the code's choice.
ClientMethod(method) == method

\* method: clientReq.method === 'HEAD' ? 'HEAD' : 'GET'
UpstreamMethod(method) == IF method = "HEAD" THEN "HEAD" ELSE "GET"

Idle ==
    [pc |-> "new", method |-> "", target |-> "", body |-> NoBody, chain |-> 0,
     origin |-> DefaultOrigin, headers |-> NoHeaders, relayed |-> FALSE,
     closedAt |-> "", isResolved |-> FALSE, upMethods |-> {},
     timer |-> 0, waited |-> 0, elapsed |-> 0, abandoned |-> 0,
     range |-> "", current |-> "", sent |-> <<>>,
     status |-> 0, error |-> "", retryAfter |-> "", reply |-> "", ended |-> 0,
     upstream |-> "none", redirects |-> 0, settled |-> FALSE,
     pendingError |-> FALSE, pendingPipeline |-> FALSE, clientClosed |-> FALSE,
     fault |-> "", arrivedAt |-> 0, admitted |-> FALSE, released |-> 0,
     fetches |-> 0]

\* A connection takes its next request once the one before is over and no
\* event of it is still due.
Free(q) ==
    \/ q.pc = "new"
    \/ q.pc = "done" /\ ~q.pendingError /\ ~q.pendingPipeline

\* The request c = [method, target, body, chain] as it reaches the process.
Sent(c) ==
    [Idle EXCEPT !.pc = "sent", !.method = c.method, !.target = c.target,
                 !.body = c.body, !.chain = c.chain, !.origin = c.origin,
                 !.range = IF "range" \in DOMAIN c THEN c.range ELSE ""]

\* A response sent whole: writeHead(status) and end(text), or new Response.
Reply(q, status, error) ==
    [q EXCEPT !.pc = "done", !.status = status, !.error = error, !.ended = @ + 1,
              !.headers = DefaultHeaders]

\* A token and the signed URL that carries it; unsignedUrl is that URL with
\* an empty sig, kept for the clients that present it so.
TokenOf(base, url, timestamp, nonce, signature) ==
    [url |-> url, issuedAt |-> timestamp, nonce |-> nonce, sig |-> signature,
     signedUrl |-> SignedUrl(base, url, timestamp, nonce, signature),
     unsignedUrl |-> SignedUrl(base, url, timestamp, nonce, "")]

\* The token the signing endpoint issues for url.
Token(base, url, nonce) ==
    TokenOf(base, url, now, nonce,
            hmacSHA256(SignedMessage(url, NumberToString(now), nonce), secret))

\* The first upstream request of an admitted request: proxyVideo up to
\* upstreamReq.end(), resp. up to the first `await fetch`.
\* const REQUEST_TIMEOUT_MS: 30_000 in the two servers, 25000 in the edge
\* function.
REQUEST_TIMEOUT_MS == IF shape = "edge" THEN 25000 ELSE 30000

\* One timeout for the whole operation, armed with the first upstream
\* request and left running over the redirects: the properties of the
\* timeout must tell it from the code's timeout of each request.
SharedBudget(q) == IF q.fetches = 0 THEN REQUEST_TIMEOUT_MS ELSE q.timer

\* The timeout of a new upstream request: the option
\* `timeout: REQUEST_TIMEOUT_MS` of protocol.request, and
\* setTimeout(() => controller.abort(), REQUEST_TIMEOUT_MS) in each turn of
\* the loop of the edge function.
ArmTimer(q) == REQUEST_TIMEOUT_MS

\* A redirect followed with the request it answers left as it is: the
\* properties of the hops must tell it from the code's redirect branch.
LeftOpen(q) ==
    [q EXCEPT !.redirects = @ + 1,
              !.current = ResolveLocation(LocationOf(q.redirects + 1), @)]

\* The redirect branch: upstreamReq.destroy() in the servers; in the edge
\* function `await fetch` is over and its Response is dropped by
\* `continue`.
Abandon(q) ==
    [q EXCEPT !.redirects = @ + 1, !.abandoned = @ + 1,
              !.current = ResolveLocation(LocationOf(q.redirects + 1), @)]

\* The headers of the upstream request to q.current that the properties
\* follow: the Referer, and headers.Range = clientReq.headers.range when
\* the client sent one.
UpstreamHeaders(q) ==
    [url     |-> q.current,
     referer |-> IF shape = "legacy" THEN LegacyReferer(q.current)
                 ELSE Referer(q.current, IF q.sent = <<>> THEN q.current
                                         ELSE q.sent[1].url),
     range   |-> q.range]

\* A new upstream request: to the URL of the client, or to the Location of
\* a redirect.
NextHop(q) ==
    [q EXCEPT !.fetches = @ + 1,
              !.upMethods = @ \cup {UpstreamMethod(q.method)},
              !.timer = ArmTimer(q), !.waited = 0,
              !.sent = Append(@, UpstreamHeaders(q))]

\* The response of the upstream has arrived. The edge function calls
\* clearTimeout(timeout); the timeout of a socket of Node counts its idle
\* time, and starts again with the bytes of the response.
Heard(q) ==
    IF shape = "edge" THEN [q EXCEPT !.timer = 0]
    ELSE [q EXCEPT !.timer = REQUEST_TIMEOUT_MS, !.waited = 0]

\* The timeout of the upstream request runs out: what was left of it has
\* passed in silence.
Expired(q) ==
    [q EXCEPT !.waited = @ + q.timer, !.elapsed = @ + q.timer, !.timer = 0]

\* The four parameters of a proxy request.
ProxyParams(target) ==
    [url   |-> SearchParamsGet(Query(target), "url"),
     t     |-> SearchParamsGet(Query(target), "t"),
     nonce |-> SearchParamsGet(Query(target), "nonce"),
     sig   |-> SearchParamsGet(Query(target), "sig")]

StartProxy(q) ==
    NextHop([q EXCEPT !.pc = "headers", !.admitted = TRUE, !.upstream = "open",
                      !.current = ProxyParams(q.target).url])

\* The health probe's body: activeRequests and maxConcurrent.
Healthy(active) ==
    "healthy " \o NumberToString(active) \o "/" \o NumberToString(MAX_CONCURRENT)

\* A slot taken by every request that reaches the handler: the properties
\* of the counter must tell it from the code's increment.
SlotOnArrival(d) == 1

\* activeRequests++ comes after every check that answers the request, right
\* before proxyVideo is called.
SlotsTaken(d) == IF d.kind = "admit" THEN 1 ELSE 0

\* The request record after the handler has acted on its decision d.
Routed(q, d, base, nonce) ==
    IF d.kind = "admit" THEN StartProxy([q EXCEPT !.arrivedAt = now])
    ELSE IF d.kind = "digest" THEN [q EXCEPT !.pc = "hmac", !.arrivedAt = now]
    ELSE [Reply([q EXCEPT !.arrivedAt = now], d.status, d.error) EXCEPT
             !.retryAfter = d.retryAfter,
             !.reply = IF d.kind = "sign" THEN Token(base, q.body.url, nonce).signedUrl
                       ELSE IF d.error = "healthy" THEN Healthy(activeRequests)
                       ELSE ""]

\* ------------------------------------------------------------------------
\* The Node server (part_001)
\* ------------------------------------------------------------------------

StaticFiles == {"/", "/index.html", "/player.js"}

\* A request that keeps its slot when it is over: the properties of the
\* release must tell it from the finally of the code.
NeverReleased(q) == 0

\* A promise that could settle again and run its reactions again: the
\* properties of the release must tell it from a promise.
SettlesAgain(q) == TRUE

\* A promise settles once: resolve and reject of a settled promise do nothing.
CanSettle(q) == ~q.settled

\* proxyVideo(...).catch(err => { if (!res.headersSent) res.writeHead(500);
\* res.end() }).finally(() => activeRequests--), run when the promise of
\* proxyVideo settles: the reactions of a promise run before the next event.
Settle(q, rejected, fault) ==
    IF ~CanSettle(q) THEN q
    ELSE [q EXCEPT !.settled = TRUE, !.pc = "done", !.fault = fault,
                   !.status = IF rejected /\ @ = 0 THEN 500 ELSE @,
                   !.headers = IF rejected /\ q.status = 0 THEN DefaultHeaders ELSE @,
                   !.ended = IF rejected THEN @ + 1 ELSE @,
                   !.released = @ + 1]

Released(q) == IF CanSettle(q) THEN 1 ELSE 0

\* The overload test with the comparison one off (>), which lets one request
\* more in: the admission properties must tell it from the code's test.
OverloadedAbove(active) == active > MAX_CONCURRENT

\* if (activeRequests >= MAX_CONCURRENT)
Overloaded(active) == active >= MAX_CONCURRENT

\* The proxy endpoint of the server past the health probe: the security
\* checks, the signature, then the overload protection.
ServerAdmission(checks, matches, active) ==
    IF checks.error # "ok" THEN checks
    ELSE IF ~matches THEN Answer(403, "Invalid signature")
    ELSE IF Overloaded(active)
    THEN [Answer(503, "Server busy") EXCEPT !.retryAfter = "5"]
    ELSE Decision("admit", 0, "")

\* A proxy endpoint that remembers the nonces it has admitted and turns
\* away a second request with one of them: the properties of a stateless
\* verifier must tell it from the code's.
ServerProxyRouteSingleUse(p, clock, active, key) ==
    IF p.url = "" THEN Answer(200, "healthy")
    ELSE IF \E u \in Conns : /\ req[u].admitted
                              /\ ProxyParams(req[u].target).nonce = p.nonce
    THEN Answer(403, "Link already used")
    ELSE ServerAdmission(SecurityChecks(key, p.url, p.t, p.nonce, p.sig, clock),
                         SignatureMatches(key, p.url, p.t, p.nonce, p.sig), active)

ServerProxyRoute(p, clock, active, key) ==
    IF p.url = "" THEN Answer(200, "healthy")
    ELSE ServerAdmission(SecurityChecks(key, p.url, p.t, p.nonce, p.sig, clock),
                         SignatureMatches(key, p.url, p.t, p.nonce, p.sig), active)

\* The route of http.createServer's handler: what it answers, or that it
\* signs, or that it admits the request, for the request c read at `clock`
\* with `active` requests counted and the secret `key`.
ServerRoute(c, clock, active, key) ==
    IF c.method = "OPTIONS" THEN Answer(200, "")
    ELSE IF Pathname(c.target) = "/generate-signed-url" /\ c.method = "POST"
    THEN IF ~c.body.json THEN Answer(400, "Invalid request")
         ELSE IF c.body.url = "" \/ ~isValidHttpUrl(c.body.url)
         THEN Answer(400, "Invalid URL")
         ELSE Decision("sign", 200, "")
    ELSE IF Pathname(c.target) = "/proxy"
    THEN ServerProxyRoute(ProxyParams(c.target), clock, active, key)
    ELSE Answer(IF Pathname(c.target) \in StaticFiles THEN 200 ELSE 404, "")

\* http.createServer((req, res) => ...): the whole handler of one request,
\* for an admitted proxy request up to upstreamReq.end() of its first hop.
ServerRequest(r, nonce) ==
    /\ shape = "server" /\ serverUp
    /\ req[r].pc = "sent"
    /\ \E d \in {ServerRoute(req[r], now, activeRequests, secret)} :
          /\ req' = [req EXCEPT ![r] = Routed(req[r], d, "/proxy", nonce)]
          /\ activeRequests' = activeRequests + SlotsTaken(d)
          /\ signed' = IF d.kind = "sign"
                       THEN signed \cup {Token("/proxy", req[r].body.url, nonce)}
                       ELSE signed
    /\ UNCHANGED <<player, shape, secret, serverUp, now>>

\* err.code === 'ECONNRESET' || err.code === 'ERR_STREAM_PREMATURE_CLOSE'
BenignCodes == {"ECONNRESET", "ERR_STREAM_PREMATURE_CLOSE"}

\* The 'response' callback of upstreamReq. The upstream answers the hop with
\* a redirect while the chain of the target lasts and with a 200 after it;
\* `resolvable` is whether new URL(location, src) accepts the Location of a
\* redirect. It throws otherwise, inside the callback: the exception is
\* uncaught and its handler calls process.exit(1).
ServerResponse(r, resolvable) ==
    /\ shape = "server" /\ serverUp
    /\ req[r].pc = "headers" /\ req[r].upstream = "open"
    /\ \E q \in {Heard(req[r])} :
           IF q.redirects < q.chain
           THEN IF ~resolvable
                THEN /\ serverUp' = FALSE
                     /\ req' = [req EXCEPT ![r].upstream = "destroyed"]
                     /\ UNCHANGED activeRequests
                ELSE /\ \E hop \in {Abandon(req[r])} :
                        req' = [req EXCEPT ![r] = NextHop(hop)]
                     /\ UNCHANGED <<activeRequests, serverUp>>
           ELSE IF ~HasBody(q.method)
           THEN /\ activeRequests' = activeRequests - Released(q)
                /\ req' = [req EXCEPT ![r] =
                       Settle([q EXCEPT !.status = q.origin.status,
                                        !.headers = ServerHeaders(q.origin.headers),
                                        !.ended = @ + 1], FALSE, "")]
                /\ UNCHANGED serverUp
           ELSE /\ req' = [req EXCEPT ![r] =
                           [q EXCEPT !.status = q.origin.status,
                                     !.headers = ServerHeaders(q.origin.headers),
                                     !.relayed = TRUE,
                                     !.pc = "relay"]]
                /\ UNCHANGED <<activeRequests, serverUp>>
    /\ UNCHANGED <<player, shape, secret, now, signed>>

\* upstreamReq.on('timeout'): destroy the upstream request and reject. The
\* destroyed request then emits 'error' (socket hang up, ECONNRESET) when it
\* had no response yet, and fails the pipeline when it had one.
ServerTimeout(r) ==
    /\ shape = "server" /\ serverUp
    /\ req[r].pc \in {"headers", "relay"} /\ req[r].upstream = "open"
    /\ req[r].timer > 0
    /\ activeRequests' = activeRequests - Released(req[r])
    /\ req' = [req EXCEPT ![r] =
           Settle([Expired(req[r]) EXCEPT !.upstream = "destroyed",
                                 !.pendingError = (req[r].pc = "headers"),
                                 !.pendingPipeline = (req[r].pc = "relay")],
                  TRUE, "Upstream timeout")]
    /\ UNCHANGED <<player, shape, secret, serverUp, now, signed>>

\* upstreamReq.on('error'): an error of the connection to the upstream (any
\* code), or the ECONNRESET a destroyed request emits.
ServerError(r, code) ==
    /\ shape = "server" /\ serverUp
    /\ \/ req[r].pc \in {"headers", "relay"} /\ req[r].upstream = "open"
       \/ req[r].pendingError /\ code = "ECONNRESET"
    /\ activeRequests' = activeRequests - Released(req[r])
    /\ req' = [req EXCEPT ![r] =
           Settle([req[r] EXCEPT !.upstream = "destroyed",
                                 !.pendingError = FALSE,
                                 !.pendingPipeline = @ \/ (req[r].pc = "relay")],
                  code \notin BenignCodes,
                  IF code \in BenignCodes THEN "" ELSE code)]
    /\ UNCHANGED <<player, shape, secret, serverUp, now, signed>>

\* The callback of pipeline(upstreamRes, pass, clientRes, ...): without an
\* error once the body has been relayed and the client response ended by the
\* pipeline; with one when the upstream or the client went away first.
ServerPipeline(r, err) ==
    /\ shape = "server" /\ serverUp
    /\ \/ req[r].pc = "relay" /\ req[r].upstream = "open"
       \/ req[r].pendingPipeline /\ err # ""
    /\ activeRequests' = activeRequests - Released(req[r])
    /\ req' = [req EXCEPT ![r] =
           Settle([req[r] EXCEPT !.upstream = "none",
                                 !.pendingPipeline = FALSE,
                                 !.ended = IF err = "" THEN @ + 1 ELSE @],
                  err # "", err)]
    /\ UNCHANGED <<player, shape, secret, serverUp, now, signed>>

\* A server that does not hear its client leave: the properties of the
\* abort must tell it from the code's listeners.
IgnoresClose(r) ==
    /\ shape = "server" /\ serverUp
    /\ req[r].admitted /\ req[r].pc \in {"headers", "relay", "done"}
    /\ ~req[r].clientClosed
    /\ req' = [req EXCEPT ![r].clientClosed = TRUE, ![r].closedAt = req[r].pc]
    /\ UNCHANGED <<player, shape, secret, serverUp, now, activeRequests, signed>>

\* clientReq / clientRes 'close': abort = () => upstreamReq.destroy(). The
\* listeners stay for the life of the connection: a close after the end of
\* the request destroys a request that is over already.
ServerClientClose(r) ==
    /\ shape = "server" /\ serverUp
    /\ req[r].admitted /\ req[r].pc \in {"headers", "relay", "done"}
    /\ ~req[r].clientClosed
    /\ req' = [req EXCEPT ![r].clientClosed = TRUE,
                          ![r].closedAt = req[r].pc,
                          ![r].upstream = IF @ = "open" THEN "destroyed" ELSE @,
                          ![r].pendingError =
                              @ \/ (req[r].upstream = "open" /\ req[r].pc = "headers"),
                          ![r].pendingPipeline =
                              @ \/ (req[r].upstream = "open" /\ req[r].pc = "relay")]
    /\ UNCHANGED <<player, shape, secret, serverUp, now, activeRequests, signed>>

\* ------------------------------------------------------------------------
\* The edge function (part_003, lines 1-246)
\* ------------------------------------------------------------------------

\* `finally { activeRequests-- }` of the handler, with the response it
\* returns or the 502 of its catch.
EdgeReturn(q, pc, status, error, fault) ==
    [q EXCEPT !.pc = pc, !.status = status, !.error = error, !.fault = fault,
              !.ended = @ + 1, !.released = @ + 1,
              !.headers = IF fault = "" /\ error = ""
                          THEN EdgeHeaders(q.origin.headers) ELSE DefaultHeaders,
              !.relayed = (pc = "relay"),
              !.upstream = IF pc = "relay" THEN "open" ELSE "none"]

\* The proxy endpoint of the edge function past the health probe, up to the
\* digest: the overload protection first, then the security checks.
EdgeAdmission(checks, active) ==
    IF Overloaded(active)
    THEN [Answer(503, "Server busy") EXCEPT !.retryAfter = "5"]
    ELSE IF checks.error # "ok" THEN checks
    ELSE Decision("digest", 0, "")

EdgeProxyRoute(p, clock, active, key) ==
    IF p.url = "" THEN Answer(200, "healthy")
    ELSE EdgeAdmission(SecurityChecks(key, p.url, p.t, p.nonce, p.sig, clock), active)

\* The route of handler(req) up to its first await that another request can
\* overtake, the digest of the signature check (the awaits of a signing
\* request touch nothing shared and are run through).
EdgeRoute(c, clock, active, key) ==
    IF c.method = "OPTIONS" THEN Answer(200, "")
    ELSE IF SearchParamsGet(Query(c.target), "action") = "sign" /\ c.method = "POST"
    THEN IF key = "" THEN Answer(500, "Server configuration error")
         ELSE IF ~c.body.json THEN Answer(400, "Invalid request")
         ELSE IF c.body.url = "" \/ ~isValidHttpUrl(c.body.url)
         THEN Answer(400, "Invalid URL")
         ELSE Decision("sign", 200, "")
    ELSE EdgeProxyRoute(ProxyParams(c.target), clock, active, key)

\* handler(req) up to the digest.
EdgeRequest(r, nonce) ==
    /\ shape = "edge" /\ serverUp
    /\ req[r].pc = "sent"
    /\ \E d \in {EdgeRoute(req[r], now, activeRequests, secret)} :
          /\ req' = [req EXCEPT ![r] = Routed(req[r], d, "/api/server", nonce)]
          /\ signed' = IF d.kind = "sign"
                       THEN signed \cup {Token("/api/server", req[r].body.url, nonce)}
                       ELSE signed
    /\ UNCHANGED <<player, shape, secret, serverUp, now, activeRequests>>

\* The handler from the digest on: the comparison of the signature,
\* activeRequests++, and proxyVideo up to its first `await fetch`.
EdgeDigest(r) ==
    /\ shape = "edge" /\ serverUp
    /\ req[r].pc = "hmac"
    /\ \E p \in {ProxyParams(req[r].target)} :
       \E d \in {IF ~SignatureMatches(secret, p.url, p.t, p.nonce, p.sig)
                 THEN Answer(403, "Invalid signature")
                 ELSE Decision("admit", 0, "")} :
          /\ activeRequests' = activeRequests + SlotsTaken(d)
          /\ req' = [req EXCEPT ![r] =
                 IF d.kind = "admit" THEN StartProxy(req[r])
                 ELSE Reply(req[r], d.status, d.error)]
    /\ UNCHANGED <<player, shape, secret, serverUp, now, signed>>

\* The loop of proxyVideo goes on to another fetch: `while (redirects <
\* MAX_REDIRECTS)`.
MayFetchAgain(redirects) == redirects < MAX_REDIRECTS

\* ct.includes('text/html') for the content type of the upstream's answer;
\* of the content types of the model only text/html holds it.
NotStreamable(up) == up["content-type"] = "text/html"

\* `await fetch(...)` resolves. A redirect with a Location that
\* new URL(loc, currentUrl) refuses throws into the handler's catch; one it
\* accepts is followed while the loop goes on, and ends the loop with
\* 'Too many redirects' otherwise. Any other response is returned, and the
\* handler's finally runs as it returns it: the runtime relays the body
\* afterwards. A response of content type text/html is answered 502
\* 'Content not streamable' instead.
EdgeFetchResolves(r, resolvable) ==
    /\ shape = "edge" /\ serverUp
    /\ req[r].pc = "headers"
    /\ \E q \in {Heard(req[r])} :
           IF q.redirects < q.chain
           THEN IF ~resolvable
                THEN req' = [req EXCEPT ![r] =
                         EdgeReturn(q, "done", 502, "Proxy error", "Invalid URL")]
                ELSE IF MayFetchAgain(q.redirects + 1)
                THEN /\ \E hop \in {Abandon(req[r])} :
                        req' = [req EXCEPT ![r] = NextHop(hop)]
                ELSE req' = [req EXCEPT ![r] =
                         EdgeReturn([q EXCEPT !.redirects = @ + 1], "done", 502,
                                    "Proxy error", "Too many redirects")]
           ELSE IF NotStreamable(q.origin.headers)
           THEN req' = [req EXCEPT ![r] =
                    EdgeReturn(q, "done", 502, "Content not streamable", "")]
           ELSE req' = [req EXCEPT ![r] =
                    EdgeReturn(q, IF HasBody(q.method) THEN "relay" ELSE "done",
                               q.origin.status, "", "")]
    /\ activeRequests' =
           IF req[r].redirects < req[r].chain /\ resolvable
              /\ MayFetchAgain(req[r].redirects + 1)
           THEN activeRequests ELSE activeRequests - 1
    /\ UNCHANGED <<player, shape, secret, serverUp, now, signed>>

\* `await fetch(...)` rejects: the abort of the timeout ('Timeout') or an
\* error of the connection; the handler's catch answers 502.
EdgeFetchFails(r, fault) ==
    /\ shape = "edge" /\ serverUp
    /\ req[r].pc = "headers"
    /\ fault = "Timeout" => req[r].timer > 0
    /\ activeRequests' = activeRequests - 1
    /\ req' = [req EXCEPT ![r] =
           EdgeReturn(IF fault = "Timeout" THEN Expired(req[r])
                      ELSE [req[r] EXCEPT !.timer = 0],
                      "done", 502, "Proxy error", fault)]
    /\ UNCHANGED <<player, shape, secret, serverUp, now, signed>>

\* The runtime has relayed the body of the returned Response, or given up
\* on it.
EdgeRelayEnds(r) ==
    /\ shape = "edge" /\ serverUp
    /\ req[r].pc = "relay"
    /\ req' = [req EXCEPT ![r].pc = "done", ![r].upstream = "none"]
    /\ UNCHANGED <<player, shape, secret, serverUp, now, activeRequests, signed>>

\* The client disconnects. The handler listens to nothing of the client:
\* an await in progress goes on.
EdgeClientClose(r) ==
    /\ shape = "edge" /\ serverUp
    /\ req[r].pc \in {"hmac", "headers", "relay"} /\ ~req[r].clientClosed
    /\ req' = [req EXCEPT ![r].clientClosed = TRUE, ![r].closedAt = req[r].pc]
    /\ UNCHANGED <<player, shape, secret, serverUp, now, activeRequests, signed>>

\* ------------------------------------------------------------------------
\* The older Node server (part_000): no tokens, safeResolve / safeReject
\* ------------------------------------------------------------------------

\* The route of the older handler: OPTIONS, the proxy endpoint (the url
\* parameter, then the overload test), and the static files.
LegacyRoute(c, active) ==
    IF c.method = "OPTIONS" THEN Answer(200, "")
    ELSE IF Pathname(c.target) = "/proxy"
    THEN IF ProxyParams(c.target).url = "" THEN Answer(400, "Missing url parameter")
         ELSE IF Overloaded(active)
         THEN [Answer(503, "Server busy") EXCEPT !.retryAfter = "5"]
         ELSE Decision("admit", 0, "")
    ELSE Answer(IF Pathname(c.target) \in StaticFiles THEN 200 ELSE 404, "")

\* try { await proxyVideo(...) } finally { activeRequests-- }: the promise
\* settles once and the finally runs then. Nothing catches a rejection: the
\* response is left as it is.
LegacySettle(q, rejected, fault) ==
    IF ~CanSettle(q) THEN q
    ELSE [q EXCEPT !.settled = TRUE, !.pc = "done", !.fault = fault,
                   !.released = @ + 1]

\* cleanup: if (upstreamReq && !upstreamReq.destroyed) upstreamReq.destroy().
\* A request destroyed before its response emits 'error', one destroyed
\* while its body is piped fails the pipeline.
Cleanup(q) ==
    IF q.upstream # "open" THEN q
    ELSE [q EXCEPT !.upstream = "destroyed",
                   !.pendingError = @ \/ (q.pc = "headers"),
                   !.pendingPipeline = @ \/ (q.pc = "relay")]

\* safeResolve: if (!isResolved) { isResolved = true; cleanup(); resolve() }
safeResolve(q) ==
    IF q.isResolved THEN q
    ELSE LegacySettle(Cleanup([q EXCEPT !.isResolved = TRUE]), FALSE, "")

\* safeReject: the same, resolving for the codes of a client's abort and
\* rejecting for every other error.
safeReject(q, code) ==
    IF q.isResolved THEN q
    ELSE LegacySettle(Cleanup([q EXCEPT !.isResolved = TRUE]),
                      code \notin BenignCodes,
                      IF code \in BenignCodes THEN "" ELSE code)

\* headersOut of the older server.
LegacyHeaders(up) ==
    [DefaultHeaders EXCEPT
        !["content-type"] = IF up["content-type"] # "" THEN up["content-type"]
                            ELSE "video/mp4",
        !["content-length"] = up["content-length"],
        !["content-range"] = up["content-range"],
        !["accept-ranges"] = "bytes",
        !["cache-control"] = "no-cache"]

\* headersOut holds 'Content-Length' and 'Content-Range' with the value
\* undefined when the upstream sent none, and writeHead, which sets the
\* headers one by one after the setHeader calls of the handler, throws for
\* a header of value undefined.
WriteHeadThrows(up) == up["content-length"] = "" \/ up["content-range"] = ""

\* The older handler, for an admitted request up to upstreamReq.end().
LegacyRequest(r) ==
    /\ shape = "legacy" /\ serverUp
    /\ req[r].pc = "sent"
    /\ \E d \in {LegacyRoute(req[r], activeRequests)} :
          /\ req' = [req EXCEPT ![r] = Routed(req[r], d, "/proxy", "")]
          /\ activeRequests' = activeRequests + SlotsTaken(d)
    /\ UNCHANGED <<player, shape, secret, serverUp, now, signed>>

\* The 'response' callback of the older server. An exception in it (of
\* new URL for a Location that does not resolve, of writeHead) is uncaught:
\* its handler calls process.exit(1) for every code but the two of a
\* client's abort. A redirect is followed by a new proxyVideo with a flag
\* of its own; the HEAD branch calls resolve() itself.
LegacyResponse(r, resolvable) ==
    /\ shape = "legacy" /\ serverUp
    /\ req[r].pc = "headers" /\ req[r].upstream = "open"
    /\ \E q \in {Heard(req[r])} :
           IF q.redirects < q.chain
           THEN IF ~resolvable
                THEN /\ serverUp' = FALSE
                     /\ req' = [req EXCEPT ![r].upstream = "destroyed"]
                     /\ UNCHANGED activeRequests
                ELSE /\ \E hop \in {Abandon(req[r])} :
                        req' = [req EXCEPT ![r] = NextHop(hop)]
                     /\ UNCHANGED <<activeRequests, serverUp>>
           ELSE IF WriteHeadThrows(q.origin.headers)
           THEN /\ serverUp' = FALSE
                /\ UNCHANGED <<req, activeRequests>>
           ELSE IF ~HasBody(q.method)
           THEN /\ activeRequests' = activeRequests - Released(q)
                /\ req' = [req EXCEPT ![r] =
                       LegacySettle([q EXCEPT !.status = q.origin.status,
                                              !.headers = LegacyHeaders(q.origin.headers),
                                              !.ended = @ + 1], FALSE, "")]
                /\ UNCHANGED serverUp
           ELSE /\ req' = [req EXCEPT ![r] =
                           [q EXCEPT !.status = q.origin.status,
                                     !.headers = LegacyHeaders(q.origin.headers),
                                     !.relayed = TRUE,
                                     !.pc = "relay"]]
                /\ UNCHANGED <<activeRequests, serverUp>>
    /\ UNCHANGED <<player, shape, secret, now, signed>>

\* upstreamReq.on('timeout', () => safeReject(new Error('Request timeout')))
LegacyTimeout(r) ==
    /\ shape = "legacy" /\ serverUp
    /\ req[r].pc \in {"headers", "relay"} /\ req[r].upstream = "open"
    /\ req[r].timer > 0
    /\ activeRequests' = activeRequests - Released(req[r])
    /\ req' = [req EXCEPT ![r] = safeReject(Expired(req[r]), "Request timeout")]
    /\ UNCHANGED <<player, shape, secret, serverUp, now, signed>>

\* upstreamReq.on('error', safeReject): an error of the connection to the
\* upstream, or the ECONNRESET a destroyed request emits.
LegacyError(r, code) ==
    /\ shape = "legacy" /\ serverUp
    /\ \/ req[r].pc \in {"headers", "relay"} /\ req[r].upstream = "open"
       \/ req[r].pendingError /\ code = "ECONNRESET"
    /\ activeRequests' = activeRequests - Released(req[r])
    /\ req' = [req EXCEPT ![r] =
           safeReject([req[r] EXCEPT !.upstream = "destroyed",
                                     !.pendingError = FALSE,
                                     !.pendingPipeline = @ \/ (req[r].pc = "relay")],
                      code)]
    /\ UNCHANGED <<player, shape, secret, serverUp, now, signed>>

\* The callback of pipeline(upstreamRes, pass, clientRes, ...): safeResolve
\* without an error, safeReject with one.
LegacyPipeline(r, err) ==
    /\ shape = "legacy" /\ serverUp
    /\ \/ req[r].pc = "relay" /\ req[r].upstream = "open"
       \/ req[r].pendingPipeline /\ err # ""
    /\ activeRequests' = activeRequests - Released(req[r])
    /\ LET q == [req[r] EXCEPT !.upstream = "none",
                               !.pendingPipeline = FALSE,
                               !.ended = IF err = "" THEN @ + 1 ELSE @]
       IN  req' = [req EXCEPT ![r] =
                      IF err = "" THEN safeResolve(q) ELSE safeReject(q, err)]
    /\ UNCHANGED <<player, shape, secret, serverUp, now, signed>>

\* clientReq.on('close') / clientRes.on('close'): safeResolve().
LegacyClientClose(r) ==
    /\ shape = "legacy" /\ serverUp
    /\ req[r].admitted /\ req[r].pc \in {"headers", "relay", "done"}
    /\ ~req[r].clientClosed
    /\ activeRequests' = activeRequests - Released(req[r])
    /\ req' = [req EXCEPT ![r] =
           safeResolve([req[r] EXCEPT !.clientClosed = TRUE,
                                      !.closedAt = req[r].pc])]
    /\ UNCHANGED <<player, shape, secret, serverUp, now, signed>>

\* ------------------------------------------------------------------------
\* The player (src/player.js): loadVideo and the events of the video element
\* ------------------------------------------------------------------------

\* this.LOADING_TIMEOUT_MS = 15000
LOADING_TIMEOUT_MS == 15000

\* The milliseconds the clock of the page advances by in one step.
TickMs == 5000

TimeoutMessage == "Loading timeout - video failed to load"

\* The page before any video is loaded. Fields:
\*   pc        "idle", "signing" (loadVideo awaits getSignedUrl), "loading"
\*             (the source is set and load() was called)
\*   handle    this.loadingTimeout holds a timer id (is not null)
\*   timer     the timer behind it: "none", "armed", "cleared", "fired"
\*   elapsed   milliseconds since the timer was set
\*   queued    the events the video element has queued and not yet fired
\*   started   'loadstart' of the current source has been fired
\*   readyState, networkState   of the video element
\*   mediaError   the element has fired 'error'
\*   errorShown, errorText      the error overlay
\*   input     this.urlInput.value when loadVideo was last invoked
\*   useProxy  this.useProxyCheckbox.checked at that invocation
\*   awaiting  the URLs of the loadVideo calls that await getSignedUrl, in
\*             the order of their invocation
\*   currentUrl, src   this.currentUrl and this.video.src
\*   stale     the timers that are set but whose id this.loadingTimeout holds
\*             no more: the milliseconds since each was set
NoVideo ==
    [pc |-> "idle", handle |-> FALSE, timer |-> "none", elapsed |-> 0,
     queued |-> {}, started |-> FALSE, readyState |-> 0, networkState |-> 0,
     mediaError |-> FALSE, errorShown |-> FALSE, errorText |-> "",
     input |-> "", useProxy |-> FALSE, awaiting |-> <<>>,
     currentUrl |-> "", src |-> "", stale |-> {}]

\* The values of the URL input of the page: empty, and two videos.
PageUrls == {"", "http://a/v", "http://b/v"}

\* The loadVideo calls that may await their signed URL at a time.
MaxLoads == 2

\* if (this.loadingTimeout) { clearTimeout(this.loadingTimeout);
\* this.loadingTimeout = null }
ClearAndForget(v) ==
    [v EXCEPT !.handle = FALSE,
              !.timer = IF v.handle /\ @ = "armed" THEN "cleared" ELSE @]

\* showError(msg)
showError(v, msg) == [v EXCEPT !.errorShown = TRUE, !.errorText = msg]

\* The end of loadVideo, run in one turn: this.currentUrl = url, pause(),
\* the new src, load(), which makes the element queue 'loadstart' (and
\* 'abort' when it was fetching another source), and then
\* this.loadingTimeout = setTimeout(...): a timer still set whose id the
\* assignment overwrites goes on running.
SetSource(v, url) ==
    [v EXCEPT !.pc = "loading",
              !.currentUrl = url, !.src = url,
              !.stale = IF v.handle /\ v.timer = "armed"
                        THEN @ \cup {v.elapsed} ELSE @,
              !.queued = {"loadstart"} \cup
                         (IF v.networkState \in {1, 2} THEN {"abort"} ELSE {}),
              !.started = FALSE, !.readyState = 0, !.networkState = 3,
              !.mediaError = FALSE,
              !.handle = TRUE, !.timer = "armed", !.elapsed = 0]

\* The path of the proxy endpoint.
ProxyBase == IF shape = "edge" THEN "/api/server" ELSE "/proxy"

\* What getSignedUrl(videoUrl) returns when the signing endpoint answers:
\* `${baseUrl}${data.signedUrl}`, with the base of the local server or the
\* origin of the page.
getSignedUrl(videoUrl) ==
    (IF shape = "server" THEN "http://localhost:4001" ELSE "https://page")
        \o Token(ProxyBase, videoUrl, "a1").signedUrl

\* s without its i-th element.
Without(s, i) == SubSeq(s, 1, i - 1) \o SubSeq(s, i + 1, Len(s))

\* loadVideo() up to its first await or, without the proxy, to its end:
\* resetUI() hides the error overlay, whose button is what calls retryLoad().
\* Nothing keeps loadVideo from being invoked while an earlier call awaits
\* its signed URL.
LoadVideo(useProxy, retry) ==
    /\ useProxy => Len(player.awaiting) < MaxLoads
    /\ retry => player.errorShown
    /\ \E url \in PageUrls :
           /\ url # ""
           /\ LET v == ClearAndForget([player EXCEPT !.errorShown = FALSE,
                                                     !.input = url,
                                                     !.useProxy = useProxy])
              IN  player' = IF useProxy
                            THEN [v EXCEPT !.pc = "signing",
                                           !.awaiting = Append(@, url)]
                            ELSE SetSource(v, url)
    /\ UNCHANGED <<shape, secret, serverUp, now, activeRequests, signed, req>>

\* getSignedUrl has its answer for one of the calls that await it: that
\* loadVideo goes on with the signed URL, or catches what getSignedUrl threw.
SignedUrlArrives(ok) ==
    /\ \E i \in 1..Len(player.awaiting) :
           LET v == [player EXCEPT !.awaiting = Without(@, i)]
           IN  player' =
                  IF ok THEN SetSource(v, getSignedUrl(player.awaiting[i]))
                  ELSE showError(
                           [v EXCEPT !.pc = IF @ = "signing" /\ v.awaiting = <<>>
                                            THEN "idle" ELSE @],
                           "Failed to load video")
    /\ UNCHANGED <<shape, secret, serverUp, now, activeRequests, signed, req>>

\* 'loadstart': if (this.loadingTimeout) clearTimeout(this.loadingTimeout);
\* showLoading(). The id is kept.
MediaLoadStart ==
    /\ "loadstart" \in player.queued /\ "abort" \notin player.queued
    /\ player' = [player EXCEPT
                      !.queued = @ \ {"loadstart"},
                      !.started = TRUE, !.networkState = 2,
                      !.timer = IF player.handle /\ @ = "armed" THEN "cleared" ELSE @]
    /\ UNCHANGED <<shape, secret, serverUp, now, activeRequests, signed, req>>

\* 'abort', fired for the source that load() replaced.
MediaAbort ==
    /\ "abort" \in player.queued
    /\ player' = ClearAndForget([player EXCEPT !.queued = @ \ {"abort"}])
    /\ UNCHANGED <<shape, secret, serverUp, now, activeRequests, signed, req>>

\* 'loadedmetadata', 'loadeddata', 'canplay': the element has reached
\* readyState 1, 2, 3.
MediaLoaded(state) ==
    /\ player.pc = "loading" /\ player.started /\ ~player.mediaError
    /\ state = player.readyState + 1
    /\ player' = ClearAndForget([player EXCEPT
                      !.readyState = state,
                      !.networkState = IF state = 3 THEN 1 ELSE @])
    /\ UNCHANGED <<shape, secret, serverUp, now, activeRequests, signed, req>>

\* 'error' of the video element while it fetches.
MediaError ==
    /\ player.pc = "loading" /\ player.started /\ ~player.mediaError
    /\ player.networkState = 2
    /\ player' = showError(ClearAndForget([player EXCEPT !.mediaError = TRUE,
                                                          !.networkState = 3]),
                           "Network error - failed to load video")
    /\ UNCHANGED <<shape, secret, serverUp, now, activeRequests, signed, req>>

\* Time passes on the page. A timer that is due runs before more passes.
Tick ==
    /\ player.pc = "loading"
    /\ player.elapsed <= LOADING_TIMEOUT_MS
    /\ ~(player.timer = "armed" /\ player.elapsed >= LOADING_TIMEOUT_MS)
    /\ \A e \in player.stale : e < LOADING_TIMEOUT_MS
    /\ player' = [player EXCEPT !.elapsed = @ + TickMs,
                                !.stale = {e + TickMs : e \in @}]
    /\ UNCHANGED <<shape, secret, serverUp, now, activeRequests, signed, req>>

\* The callback of setTimeout(..., LOADING_TIMEOUT_MS).
TimerFires ==
    /\ player.timer = "armed" /\ player.elapsed >= LOADING_TIMEOUT_MS
    /\ LET v == [player EXCEPT !.timer = "fired"]
       IN  player' =
              IF v.readyState = 0 \/ (v.networkState = 2 /\ v.readyState < 2)
              THEN showError(v, TimeoutMessage)
              ELSE v
    /\ UNCHANGED <<shape, secret, serverUp, now, activeRequests, signed, req>>

\* The callback of a timer whose id was overwritten: nothing can clear it.
StaleTimerFires ==
    /\ \E e \in player.stale :
           /\ e >= LOADING_TIMEOUT_MS
           /\ LET v == [player EXCEPT !.stale = @ \ {e}]
              IN  player' =
                     IF v.readyState = 0 \/ (v.networkState = 2 /\ v.readyState < 2)
                     THEN showError(v, TimeoutMessage)
                     ELSE v
    /\ UNCHANGED <<shape, secret, serverUp, now, activeRequests, signed, req>>

\* ------------------------------------------------------------------------
\* The clock and the clients
\* ------------------------------------------------------------------------

\* A client sends a request on a free connection.
ClientSends(r, c) ==
    /\ serverUp
    /\ Free(req[r])
    /\ req' = [req EXCEPT ![r] = Sent(c)]
    /\ UNCHANGED <<player, shape, secret, serverUp, now, activeRequests, signed>>

\* Math.floor(Date.now() / 1000) reads the wall clock of the process that
\* asks: time passes between two requests, and the signer and the verifier
\* may run on machines whose clocks differ, so a later reading may be smaller.
SetClock(time) ==
    /\ time # now
    /\ now' = time
    /\ UNCHANGED <<player, shape, secret, serverUp, activeRequests, signed, req>>

SignTarget == IF shape = "server" THEN "/generate-signed-url" ELSE "/api/server?action=sign"

\* The request target of a client that sends the four values of a token.
ProxyTarget(url, t, nonce, sig) ==
    ProxyBase \o "?url=" \o encodeURIComponent(url) \o "&t=" \o encodeURIComponent(t)
              \o "&nonce=" \o encodeURIComponent(nonce)
              \o "&sig=" \o encodeURIComponent(sig)

SignRequests(urls) ==
    IF Cardinality(signed) >= MaxSigned THEN {}
    ELSE {[method |-> "POST", target |-> SignTarget, chain |-> 0,
           origin |-> DefaultOrigin,
           body |-> [json |-> TRUE, url |-> u]] : u \in urls}

Request(method, target, chain) ==
    [method |-> method, target |-> target, chain |-> chain, body |-> NoBody,
     origin |-> DefaultOrigin, range |-> ""]

\* The clients of the admission runs: one signing request, then GET and HEAD
\* requests that present the signed URL as issued or without its signature,
\* to an upstream that answers at once or after one redirect, and health
\* probes.
LoadRequests ==
    SignRequests({"http://a/v"})
    \cup {Request("GET", tok.signedUrl, 0) : tok \in signed}
    \cup {Request("GET", tok.unsignedUrl, 0) : tok \in signed}

\* ------------------------------------------------------------------------
\* Specifications
\* ------------------------------------------------------------------------

Init ==
    /\ shape \in {"server", "edge"}
    /\ secret \in IF shape = "server" THEN {DEFAULT_SECRET} ELSE {"", "edge-secret"}
    /\ serverUp = TRUE
    /\ now = Epoch
    /\ activeRequests = 0
    /\ signed = {}
    /\ req = [r \in Conns |-> Idle]
    /\ player = NoVideo

\* Concurrent requests on NumConns connections against the admission ceiling.
Next ==
    \E r \in Conns :
        \/ \E c \in LoadRequests : ClientSends(r, c)
        \/ ServerRequest(r, "a1")
        \/ \E resolvable \in BOOLEAN : ServerResponse(r, resolvable)
        \/ ServerTimeout(r)
        \/ \E code \in {"ECONNRESET", "ENOTFOUND"} : ServerError(r, code)
        \/ \E err \in {"", "ERR_STREAM_PREMATURE_CLOSE"} : ServerPipeline(r, err)
        \/ ServerClientClose(r)
        \/ EdgeRequest(r, "a1")
        \/ EdgeDigest(r)
        \/ \E resolvable \in BOOLEAN : EdgeFetchResolves(r, resolvable)
        \/ \E fault \in {"Timeout", "ENOTFOUND"} : EdgeFetchFails(r, fault)
        \/ EdgeRelayEnds(r)
        \/ EdgeClientClose(r)

Spec == Init /\ [][Next]_vars

\* The clients of the fetch runs: one signing request, then GET and HEAD
\* requests with the signed URL to upstreams that answer at once, after
\* MAX_REDIRECTS redirects, and after MAX_REDIRECTS + 1.
Chains == {0, MAX_REDIRECTS, MAX_REDIRECTS + 1}

FetchRequests ==
    SignRequests({"http://a/v"})
    \cup {[Request(m, tok.signedUrl, n) EXCEPT !.range = g] :
              m \in {"GET", "HEAD", "POST"}, tok \in signed, n \in Chains,
              g \in {"", "bytes=0-99"}}

\* One request at a time, followed through every way a fetch can end.
NextFetch ==
    \E r \in {1} :
        \/ \E c \in FetchRequests : ClientSends(r, c)
        \/ ServerRequest(r, "a1")
        \/ \E resolvable \in BOOLEAN : ServerResponse(r, resolvable)
        \/ ServerTimeout(r)
        \/ \E code \in {"ECONNRESET", "ENOTFOUND"} : ServerError(r, code)
        \/ \E err \in {"", "ERR_STREAM_PREMATURE_CLOSE"} : ServerPipeline(r, err)
        \/ ServerClientClose(r)
        \/ EdgeRequest(r, "a1")
        \/ EdgeDigest(r)
        \/ \E resolvable \in BOOLEAN : EdgeFetchResolves(r, resolvable)
        \/ \E fault \in {"Timeout", "ENOTFOUND"} : EdgeFetchFails(r, fault)
        \/ EdgeRelayEnds(r)
        \/ EdgeClientClose(r)

SpecFetch == Init /\ [][NextFetch]_vars

\* The requests of the clients of the older server, which knows no tokens:
\* the video whole, which the upstream answers without a content-range,
\* and a range of it.
RangeOrigin ==
    [status  |-> 206,
     headers |-> [DefaultOrigin.headers EXCEPT
                     !["content-range"] = "bytes 0-99/100"]]

LegacyRequests ==
    {[Request(m, ProxyBase \o "?url=" \o encodeURIComponent("http://a/v"), n)
         EXCEPT !.origin = o,
                !.range = IF o = RangeOrigin THEN "bytes=0-99" ELSE ""] :
        m \in {"GET", "HEAD", "POST"}, n \in {0, 1},
        o \in {DefaultOrigin, RangeOrigin}}

SettleRequests == IF shape = "legacy" THEN LegacyRequests ELSE FetchRequests

InitSettle ==
    /\ shape \in {"server", "edge", "legacy"}
    /\ secret \in IF shape = "edge" THEN {"edge-secret"} ELSE {DEFAULT_SECRET}
    /\ serverUp = TRUE
    /\ now = Epoch
    /\ activeRequests = 0
    /\ signed = {}
    /\ req = [r \in Conns |-> Idle]
    /\ player = NoVideo

\* One request at a time on each of the three servers, through every order
\* of response, timeout, error, end of the pipeline and close of the client.
NextSettle ==
    \E r \in {1} :
        \/ \E c \in SettleRequests : ClientSends(r, c)
        \/ ServerRequest(r, "a1")
        \/ \E resolvable \in BOOLEAN : ServerResponse(r, resolvable)
        \/ ServerTimeout(r)
        \/ \E code \in {"ECONNRESET", "ENOTFOUND"} : ServerError(r, code)
        \/ \E err \in {"", "ERR_STREAM_PREMATURE_CLOSE"} : ServerPipeline(r, err)
        \/ ServerClientClose(r)
        \/ EdgeRequest(r, "a1")
        \/ EdgeDigest(r)
        \/ \E resolvable \in BOOLEAN : EdgeFetchResolves(r, resolvable)
        \/ \E fault \in {"Timeout", "ENOTFOUND"} : EdgeFetchFails(r, fault)
        \/ EdgeRelayEnds(r)
        \/ EdgeClientClose(r)
        \/ LegacyRequest(r)
        \/ \E resolvable \in BOOLEAN : LegacyResponse(r, resolvable)
        \/ LegacyTimeout(r)
        \/ \E code \in {"ECONNRESET", "ENOTFOUND"} : LegacyError(r, code)
        \/ \E err \in {"", "ERR_STREAM_PREMATURE_CLOSE"} : LegacyPipeline(r, err)
        \/ LegacyClientClose(r)

SpecSettle == InitSettle /\ [][NextSettle]_vars

\* The step of the upstream's silence, in ms.
StallMs == 10000

\* The upstream stays silent for ms more, short of the timeout of the
\* request in progress.
UpstreamStalls(r, ms) ==
    /\ serverUp
    /\ req[r].pc \in {"headers", "relay"} /\ req[r].upstream = "open"
    /\ 0 < ms /\ ms < req[r].timer
    /\ req' = [req EXCEPT ![r].timer = @ - ms,
                          ![r].waited = @ + ms,
                          ![r].elapsed = @ + ms]
    /\ UNCHANGED <<player, shape, secret, serverUp, now, activeRequests, signed>>

\* One request at a time on each of the three servers, its upstream slow
\* or silent on the first request and after a redirect.
NextTimeout ==
    \E r \in {1} :
        \/ \E c \in SettleRequests : ClientSends(r, c)
        \/ \E ms \in {StallMs, 2 * StallMs} : UpstreamStalls(r, ms)
        \/ ServerRequest(r, "a1")
        \/ ServerResponse(r, TRUE)
        \/ ServerTimeout(r)
        \/ ServerError(r, "ECONNRESET")
        \/ \E err \in {"", "ERR_STREAM_PREMATURE_CLOSE"} : ServerPipeline(r, err)
        \/ EdgeRequest(r, "a1")
        \/ EdgeDigest(r)
        \/ EdgeFetchResolves(r, TRUE)
        \/ EdgeFetchFails(r, "Timeout")
        \/ EdgeRelayEnds(r)
        \/ LegacyRequest(r)
        \/ LegacyResponse(r, TRUE)
        \/ LegacyTimeout(r)
        \/ LegacyError(r, "ECONNRESET")
        \/ \E err \in {"", "ERR_STREAM_PREMATURE_CLOSE"} : LegacyPipeline(r, err)

SpecTimeout == InitSettle /\ [][NextTimeout]_vars

\* The token of `tok` with t in the place of its timestamp, signed by a
\* holder of the secret.
SignedFor(tok, t) ==
    ProxyTarget(tok.url, t, tok.nonce,
                hmacSHA256(SignedMessage(tok.url, t, tok.nonce), secret))

\* The token of `tok` signed for another instant, MAX_SKEW_SECONDS + 1 after
\* its own.
PostDated(tok) ==
    SignedFor(tok, NumberToString(tok.issuedAt + MAX_SKEW_SECONDS + 1))

\* What a holder of the secret may sign in the place of a timestamp: text
\* that is no number, and the timestamp of the token followed by text.
Untimed(tok) == {"abc", NumberToString(tok.issuedAt) \o "abc"}

\* The clients of the counter runs: a preflight, a probe, a static file,
\* a signing request, the signed URL as issued, without its signature, with
\* another signature, for a URL of another scheme, signed for an instant
\* out of the window and signed for a t that is no timestamp; for the older
\* server a preflight, a static file, a proxy request with no url and one
\* with.
FrameRequests ==
    {Request("OPTIONS", ProxyBase, 0), Request("GET", ProxyBase, 0),
     Request("GET", "/index.html", 0)}
    \cup (IF shape = "legacy"
          THEN {[Request("GET", ProxyBase \o "?url="
                                \o encodeURIComponent("http://a/v"), 0)
                    EXCEPT !.origin = RangeOrigin]}
          ELSE SignRequests({"http://a/v"})
               \cup UNION {{Request("GET", tok.signedUrl, 0),
                            Request("GET", tok.unsignedUrl, 0),
                            Request("GET",
                                ProxyTarget(tok.url, NumberToString(tok.issuedAt),
                                            tok.nonce, "forged"), 0),
                            Request("GET",
                                ProxyTarget("ftp://a/v", NumberToString(tok.issuedAt),
                                            tok.nonce, tok.sig), 0),
                            Request("GET", PostDated(tok), 0)}
                           \cup {Request("GET", SignedFor(tok, t), 0) :
                                     t \in Untimed(tok)} :
                           tok \in signed})

\* Two connections on each of the three servers: requests of every kind
\* beside a request in flight, which is relayed to its end.
NextFrame ==
    \E r \in {1, 2} :
        \/ \E c \in FrameRequests : ClientSends(r, c)
        \/ ServerRequest(r, "a1")
        \/ ServerResponse(r, TRUE)
        \/ ServerPipeline(r, "")
        \/ EdgeRequest(r, "a1")
        \/ EdgeDigest(r)
        \/ EdgeFetchResolves(r, TRUE)
        \/ EdgeRelayEnds(r)
        \/ LegacyRequest(r)
        \/ LegacyResponse(r, TRUE)
        \/ LegacyPipeline(r, "")

SpecFrame == InitSettle /\ [][NextFrame]_vars

\* The clients of the release runs: GET and HEAD requests to an upstream
\* that answers at once or after one redirect.
LiveRequests ==
    IF shape = "legacy"
    THEN {[Request(m, ProxyBase \o "?url=" \o encodeURIComponent("http://a/v"), n)
              EXCEPT !.origin = RangeOrigin] : m \in {"GET", "HEAD"}, n \in {0, 1}}
    ELSE SignRequests({"http://a/v"})
         \cup {Request(m, tok.signedUrl, n) :
                   m \in {"GET", "HEAD"}, tok \in signed, n \in {0, 1}}

\* The handler runs on the request of r.
HandlerRuns(r) ==
    \/ ServerRequest(r, "a1")
    \/ EdgeRequest(r, "a1")
    \/ EdgeDigest(r)
    \/ LegacyRequest(r)

\* The upstream request of r is answered, fails or times out.
UpstreamEnds(r) ==
    \/ ServerResponse(r, TRUE)
    \/ ServerTimeout(r)
    \/ \E code \in {"ECONNRESET", "ENOTFOUND"} : ServerError(r, code)
    \/ EdgeFetchResolves(r, TRUE)
    \/ \E fault \in {"Timeout", "ENOTFOUND"} : EdgeFetchFails(r, fault)
    \/ LegacyResponse(r, TRUE)
    \/ LegacyTimeout(r)
    \/ \E code \in {"ECONNRESET", "ENOTFOUND"} : LegacyError(r, code)

\* The client of r reads the body to its end, or leaves.
ClientEnds(r) ==
    \/ \E err \in {"", "ERR_STREAM_PREMATURE_CLOSE"} : ServerPipeline(r, err)
    \/ ServerClientClose(r)
    \/ EdgeRelayEnds(r)
    \/ EdgeClientClose(r)
    \/ \E err \in {"", "ERR_STREAM_PREMATURE_CLOSE"} : LegacyPipeline(r, err)
    \/ LegacyClientClose(r)

\* Two connections on each of the three servers, through every ending.
NextLive ==
    \E r \in {1, 2} :
        \/ \E c \in LiveRequests : ClientSends(r, c)
        \/ HandlerRuns(r)
        \/ UpstreamEnds(r)
        \/ ClientEnds(r)

\* Every upstream request is answered, fails or times out; every client
\* reads to the end or leaves.
Fairness ==
    \A r \in {1, 2} :
        /\ WF_vars(UpstreamEnds(r))
        /\ WF_vars(ClientEnds(r))

SpecLive == InitSettle /\ [][NextLive]_vars /\ Fairness

\* process.env.STREAM_SECRET is set. The constant of the server is its
\* fallback when it is not, the constant of the edge function undefined.
SecretConfigured == secret \notin {"", DEFAULT_SECRET}

\* The bodies the clients of the signing runs post: a URL of http and one
\* of https, a URL of another scheme, a relative one, no url, and a body
\* that is not JSON.
SignBodies ==
    {[json |-> TRUE, url |-> u] :
        u \in {"http://a/v", "https://b.c/v?x=1&y=2", "ftp://a/v", "a/v", ""}}
    \cup {NoBody}

SigningRequests ==
    {[Request("POST", SignTarget, 0) EXCEPT !.body = b] : b \in SignBodies}
    \cup {Request("GET", tok.signedUrl, 0) : tok \in signed}

\* Each server with and without STREAM_SECRET in its environment.
InitSign ==
    /\ shape \in {"server", "edge"}
    /\ secret \in {IF shape = "server" THEN DEFAULT_SECRET ELSE "", "shared-secret"}
    /\ serverUp = TRUE
    /\ now = Epoch
    /\ activeRequests = 0
    /\ signed = {}
    /\ req = [r \in Conns |-> Idle]
    /\ player = NoVideo

\* One client that posts to the signing endpoint and fetches what it gets.
NextSign ==
    \E r \in {1} :
        \/ \E c \in SigningRequests : ClientSends(r, c)
        \/ \E nonce \in {"a1", "b2"} : ServerRequest(r, nonce)
        \/ ServerResponse(r, TRUE)
        \/ ServerPipeline(r, "")
        \/ \E nonce \in {"a1", "b2"} : EdgeRequest(r, nonce)
        \/ EdgeDigest(r)
        \/ EdgeFetchResolves(r, TRUE)
        \/ EdgeRelayEnds(r)

SpecSign == InitSign /\ [][NextSign]_vars

\* The page: loads and retries, with and without the proxy, while the video
\* element fires its events and time passes.
NextPlayer ==
    \/ \E useProxy, retry \in BOOLEAN : LoadVideo(useProxy, retry)
    \/ \E ok \in BOOLEAN : SignedUrlArrives(ok)
    \/ MediaLoadStart
    \/ MediaAbort
    \/ \E state \in 1..3 : MediaLoaded(state)
    \/ MediaError
    \/ Tick
    \/ TimerFires
    \/ StaleTimerFires

\* The page of the local server and the page of the deployment, before any
\* video is loaded.
InitPlayer ==
    /\ shape \in {"server", "edge"}
    /\ secret = IF shape = "server" THEN DEFAULT_SECRET ELSE "edge-secret"
    /\ serverUp = TRUE
    /\ now = Epoch
    /\ activeRequests = 0
    /\ signed = {}
    /\ req = [r \in Conns |-> Idle]
    /\ player = NoVideo

SpecPlayer == InitPlayer /\ [][NextPlayer]_vars

\* The clients of the replay runs: one token, and its signed URL presented
\* as often as they like.
ReplayRequests ==
    SignRequests({"http://a/v"})
    \cup {Request("GET", tok.signedUrl, 0) : tok \in signed}

\* The readings of the clock in the replay runs after the first: the next
\* second, and the first second past the window of a token of the first.
ReplayTimes == {Epoch + 1, Epoch + MAX_SKEW_SECONDS + 1}

\* Two clients with the same signed URL, while the clock goes on.
NextReplay ==
    \/ \E time \in ReplayTimes : time > now /\ SetClock(time)
    \/ \E r \in {1, 2} :
          \/ \E c \in ReplayRequests : ClientSends(r, c)
          \/ ServerRequest(r, "a1")
          \/ ServerResponse(r, TRUE)
          \/ ServerPipeline(r, "")
          \/ EdgeRequest(r, "a1")
          \/ EdgeDigest(r)
          \/ EdgeFetchResolves(r, TRUE)
          \/ EdgeRelayEnds(r)

SpecReplay == Init /\ [][NextReplay]_vars

\* The clients of the health runs: they sign where the server signs, fetch
\* the video (a range of it from the older server) and probe the proxy
\* endpoint, which is its path without a url parameter.
HealthRequests ==
    (IF shape = "legacy"
     THEN {[Request("GET", ProxyBase \o "?url=" \o encodeURIComponent("http://a/v"), 0)
               EXCEPT !.origin = RangeOrigin]}
     ELSE SignRequests({"http://a/v"})
          \cup {Request("GET", tok.signedUrl, 0) : tok \in signed})
    \cup {Request("GET", ProxyBase, 0)}

\* Probes beside requests in flight, on each of the three servers.
NextHealth ==
    \E r \in Conns :
        \/ \E c \in HealthRequests : ClientSends(r, c)
        \/ ServerRequest(r, "a1")
        \/ ServerResponse(r, TRUE)
        \/ ServerPipeline(r, "")
        \/ EdgeRequest(r, "a1")
        \/ EdgeDigest(r)
        \/ EdgeFetchResolves(r, TRUE)
        \/ EdgeRelayEnds(r)
        \/ LegacyRequest(r)
        \/ LegacyResponse(r, TRUE)
        \/ LegacyPipeline(r, "")

SpecHealth == InitSettle /\ [][NextHealth]_vars

\* The answers of the upstreams of the relay runs: the video with a cookie,
\* a range of it from an upstream that declares its own range and cache
\* policy, a video of unknown length, and a page of HTML.
Origins ==
    {[status  |-> 200,
      headers |-> [DefaultOrigin.headers EXCEPT !["set-cookie"] = "x"]],
     [status  |-> 206,
      headers |-> [DefaultOrigin.headers EXCEPT
                      !["content-range"] = "bytes 0-99/100",
                      !["accept-ranges"] = "none",
                      !["cache-control"] = "public"]],
     [status  |-> 200,
      headers |-> [NoHeaders EXCEPT !["content-type"] = "video/mp4"]],
     [status  |-> 200,
      headers |-> [DefaultOrigin.headers EXCEPT !["content-type"] = "text/html"]]}

RelayRequests ==
    SignRequests({"http://a/v"})
    \cup {[Request(m, tok.signedUrl, 0) EXCEPT !.origin = o] :
              m \in {"GET", "HEAD"}, tok \in signed, o \in Origins}

\* Two clients whose requests are fetched and relayed without a fault.
NextRelay ==
    \E r \in {1, 2} :
        \/ \E c \in RelayRequests : ClientSends(r, c)
        \/ ServerRequest(r, "a1")
        \/ ServerResponse(r, TRUE)
        \/ ServerPipeline(r, "")
        \/ EdgeRequest(r, "a1")
        \/ EdgeDigest(r)
        \/ EdgeFetchResolves(r, TRUE)
        \/ EdgeRelayEnds(r)

SpecRelay == Init /\ [][NextRelay]_vars

\* The four values of a token as a client holds them.
TokenValues(tok) ==
    [url |-> tok.url, t |-> NumberToString(tok.issuedAt), nonce |-> tok.nonce,
     sig |-> tok.sig]

\* What the clients of the verification runs present in place of a token:
\* the token with one value changed or left out (another URL, a URL that is
\* not http(s), the next second, another nonce, a digest under a guessed
\* key), and with two faults at once.
Presented(tok) ==
    LET v == TokenValues(tok)
    IN  {[v EXCEPT !.url = u] : u \in {"http://a/w", "ftp://a/v"}}
        \cup {[v EXCEPT !.t = t] : t \in {NumberToString(tok.issuedAt + 1), ""}}
        \cup {[v EXCEPT !.nonce = n] : n \in {"b2", ""}}
        \cup {[v EXCEPT !.sig = g] :
                  g \in {hmacSHA256(SignedMessage(v.url, v.t, v.nonce), "guess"), ""}}
        \cup {[v EXCEPT !.url = "ftp://a/v", !.sig = ""],
              [v EXCEPT !.url = "a/v", !.nonce = "b2"]}

VerifyUrls == {"http://a/v", "https://b.c/v?x=1&y=2", "ftp://a/v"}

\* One signing request while no token is out, then the signed URL as issued
\* and every presentation of its token.
VerifyRequests ==
    (IF signed = {} THEN SignRequests(VerifyUrls) ELSE {})
    \cup {Request("GET", tok.signedUrl, 0) : tok \in signed}
    \cup {Request("GET", ProxyTarget(v.url, v.t, v.nonce, v.sig), 0) :
              v \in UNION {Presented(tok) : tok \in signed}}

\* One request at a time, signed and verified at any two readings of the
\* clock; an admitted request is relayed to its end.
NextVerify ==
    \/ \E time \in Times : SetClock(time)
    \/ \E r \in {1} :
          \/ \E c \in VerifyRequests : ClientSends(r, c)
          \/ ServerRequest(r, "a1")
          \/ ServerResponse(r, TRUE)
          \/ ServerPipeline(r, "")
          \/ EdgeRequest(r, "a1")
          \/ EdgeDigest(r)
          \/ EdgeFetchResolves(r, TRUE)
          \/ EdgeRelayEnds(r)

SpecVerify == Init /\ [][NextVerify]_vars

\* ------------------------------------------------------------------------
\* Admission: the properties checked under Spec
\* ------------------------------------------------------------------------

\* The accepted requests that have not terminated: the body is not relayed
\* to its end, no error is reported, the client's abort has not ended them.
InFlight == {r \in Conns : req[r].admitted /\ req[r].pc # "done"}

\* The request q passes the four checks of the verifier at `clock`.
Valid(q, clock) ==
    LET p == ProxyParams(q.target)
    IN  /\ p.url # ""
        /\ SecurityChecks(secret, p.url, p.t, p.nonce, p.sig, clock).error = "ok"
        /\ SignatureMatches(secret, p.url, p.t, p.nonce, p.sig)

\* The handler runs on the request of connection r in this step.
Handled(r) == req[r].pc = "sent" /\ req'[r].pc # "sent"

\* The request of connection r is admitted in this step.
Admitted(r) == ~req[r].admitted /\ req'[r].admitted

\* C1: in every reachable state activeRequests is at most MAX_CONCURRENT,
\* whatever the interleaving of the requests handled concurrently.
C1_CeilingNeverExceeded == activeRequests <= MAX_CONCURRENT

\* The edge function: two requests pass the overload test against the same
\* counter value, both await the digest, and both have incremented.
C1_BothPastTheCheck ==
    /\ shape = "edge"
    /\ activeRequests = MAX_CONCURRENT + 1
    /\ \A r \in 1..(MAX_CONCURRENT + 1) : req[r].pc = "headers"

\* C6: 503 Server busy is the answer only to requests that passed
\* verification; a request that fails verification gets its 403 or 400
\* whatever the load.
C6_BusyOnlyToVerified ==
    \A r \in Conns : req[r].status = 503 => Valid(req[r], req[r].arrivedAt)

\* A request without a signature answered 503 while another holds the slot.
C6_BusyToUnsigned ==
    \E r \in Conns :
        /\ req[r].status = 503
        /\ ProxyParams(req[r].target).sig = ""
        /\ activeRequests >= MAX_CONCURRENT

\* C7: while MAX_CONCURRENT accepted requests are in flight no request is
\* admitted and none has an upstream fetch issued for it; a valid request
\* handled with fewer in flight is not turned away as busy.
C7_AdmissionBound ==
    [][\A r \in Conns :
          /\ Admitted(r) =>
                /\ Cardinality(InFlight) < MAX_CONCURRENT
                /\ req[r].fetches = 0
          /\ (Handled(r) /\ Valid(req[r], now)
                 /\ Cardinality(InFlight) < MAX_CONCURRENT)
                => req'[r].status # 503]_vars

\* More accepted requests in flight than the ceiling allows.
C7_OverTheBound == Cardinality(InFlight) > MAX_CONCURRENT

\* C8: in every reachable state of a running process activeRequests is the
\* number of accepted requests that have not terminated.
C8_SlotHeldForLife == serverUp => activeRequests = Cardinality(InFlight)

\* The edge function relays a body for a request whose slot it has given back.
C8_RelayWithoutSlot ==
    \E r \in Conns :
        /\ req[r].pc = "relay" /\ req[r].released = 1
        /\ activeRequests < Cardinality(InFlight)

\* What a step does to the request of connection r as far as the answer
\* 503 goes: a valid request handled at the ceiling gets it in that step; the
\* step that gives it changes nothing else; a request that has it is over.
BusyStep(r) ==
    /\ (Handled(r) /\ Valid(req[r], now) /\ activeRequests >= MAX_CONCURRENT)
          => /\ req'[r].pc = "done"
             /\ req'[r].status = 503
             /\ req'[r].retryAfter = "5"
    /\ (req[r].status # 503 /\ req'[r].status = 503)
          => /\ activeRequests' = activeRequests
             /\ req'[r].retryAfter = "5"
             /\ req'[r].pc = "done"
             /\ ~req'[r].admitted
             /\ req'[r].fetches = 0
    /\ req[r].status = 503
          => \/ req'[r] = req[r]
             \/ req'[r].pc = "sent" /\ req'[r].status = 0

\* C9: a valid proxy request handled while activeRequests >= MAX_CONCURRENT
\* is answered in that very step with 503 and Retry-After: 5, with
\* activeRequests unchanged, no upstream fetch and no admission; no step
\* that answers 503 changes activeRequests; and a request answered 503 is
\* never queued or admitted later: its connection only goes on to a new
\* request.
C9_OverloadRejection == [][\A r \in Conns : BusyStep(r)]_vars

\* A valid request turned away while the ceiling is reached.
C9_TurnedAway ==
    \E r \in Conns :
        /\ req[r].status = 503 /\ req[r].retryAfter = "5"
        /\ Valid(req[r], req[r].arrivedAt)
        /\ activeRequests >= MAX_CONCURRENT
        /\ ~req[r].admitted

\* ------------------------------------------------------------------------
\* The fetch: the properties checked under SpecFetch
\* ------------------------------------------------------------------------

\* C2: activeRequests is decremented exactly once for every accepted
\* request, however it ends: never for a request that was not accepted,
\* never twice, and once for every accepted request that is over; the
\* counter is the number of accepted requests not yet released.
C2_ReleasedExactlyOnce ==
    /\ \A r \in Conns :
          /\ req[r].released <= (IF req[r].admitted THEN 1 ELSE 0)
          /\ (req[r].admitted /\ req[r].pc = "done") => req[r].released = 1
    /\ activeRequests =
          Cardinality({r \in Conns : req[r].admitted /\ req[r].released = 0})

\* A request of the server that timed out before the upstream answered, and
\* whose destroyed upstream request has since emitted its 'error': two
\* events that each end the request, one decrement.
C2_TimeoutThenError ==
    /\ shape = "server"
    /\ req[1].fault = "Upstream timeout" /\ req[1].status = 500
    /\ req[1].upstream = "destroyed" /\ ~req[1].pendingError
    /\ req[1].released = 1
    /\ activeRequests = 0

\* C10: a request whose upstream answers with exactly MAX_REDIRECTS
\* redirects and then a 200 does not fail for its redirects, and one whose
\* upstream answers with MAX_REDIRECTS + 1 redirects is not answered 200.
C10_RedirectBound ==
    \A r \in Conns :
        /\ req[r].chain = MAX_REDIRECTS => req[r].fault # "Too many redirects"
        /\ req[r].chain = MAX_REDIRECTS + 1 => req[r].status # 200

\* The edge function gives up on a chain of exactly MAX_REDIRECTS redirects.
C10_EdgeStopsOneShort ==
    \E r \in Conns :
        /\ shape = "edge" /\ req[r].chain = MAX_REDIRECTS
        /\ req[r].redirects = MAX_REDIRECTS /\ req[r].fetches = MAX_REDIRECTS
        /\ req[r].status = 502 /\ req[r].fault = "Too many redirects"

\* C11: in every reachable state of a proxy request the number of redirects
\* followed is at most MAX_REDIRECTS, so that an upstream that keeps
\* redirecting is given up on after a bounded number of hops.
C11_RedirectsBounded ==
    \A r \in Conns : req[r].redirects <= MAX_REDIRECTS

\* The server on its seventh upstream request for one client request.
C11_ServerPastTheBound ==
    \E r \in Conns :
        /\ shape = "server"
        /\ req[r].redirects = MAX_REDIRECTS + 1
        /\ req[r].fetches = MAX_REDIRECTS + 2
        /\ req[r].fault = ""

\* C17: an accepted request whose proxy operation is over, with the client
\* still connected, has had its response ended exactly once: it is not left
\* open and not ended twice.
C17_EndedExactlyOnce ==
    \A r \in Conns :
        /\ req[r].ended <= 1
        /\ (req[r].admitted /\ req[r].pc = "done" /\ ~req[r].clientClosed)
              => req[r].ended = 1

\* The upstream connection was reset before any response headers: the
\* operation of the server is over, released, and the response of the
\* client, who is still there, has neither a status nor an end.
C17_LeftOpen ==
    \E r \in Conns :
        /\ shape = "server"
        /\ req[r].admitted /\ req[r].pc = "done" /\ req[r].released = 1
        /\ ~req[r].clientClosed
        /\ req[r].status = 0 /\ req[r].ended = 0

\* C18: whatever the upstream does, the server process stays up.
C18_ProcessStaysUp == serverUp

\* The process has exited on a redirect whose Location it could not
\* resolve, with the request that met it still counted.
C18_ExitOnLocation ==
    /\ shape = "server" /\ ~serverUp
    /\ \E r \in Conns : req[r].admitted /\ req[r].released = 0
    /\ activeRequests >= 1

\* The faults of the upstream: a timeout, too many redirects, an I/O error.
UpstreamFaults ==
    {"Upstream timeout", "Timeout", "Too many redirects", "ENOTFOUND"}

\* C19: an accepted request that fails with a fault of the upstream before
\* any response headers were sent is answered 502.
C19_UpstreamFaultIs502 ==
    \A r \in Conns :
        (req[r].admitted /\ req[r].pc = "done"
           /\ req[r].fault \in UpstreamFaults /\ req[r].status # 200)
          => req[r].status = 502

\* A timeout of the upstream answered 500 by the server.
C19_TimeoutIs500 ==
    \E r \in Conns :
        /\ shape = "server" /\ req[r].fault = "Upstream timeout"
        /\ req[r].status = 500 /\ req[r].ended = 1

\* C20: a reset or a premature close never completes the proxy operation
\* as a failure: the fault an operation ends with is never one of the
\* benign codes.
C20_BenignNeverFails ==
    \A r \in Conns : req[r].fault \notin BenignCodes

\* The pipeline of the server reports the premature close that follows the
\* client's disconnect, and the operation is rejected with it.
C20_PrematureCloseRejects ==
    \E r \in Conns :
        /\ shape = "server" /\ req[r].clientClosed
        /\ req[r].settled /\ req[r].fault = "ERR_STREAM_PREMATURE_CLOSE"
        /\ req[r].ended = 1

\* ------------------------------------------------------------------------
\* Completion: the properties checked under SpecSettle
\* ------------------------------------------------------------------------

\* The client of connection r left while the body was being relayed: the
\* headers of the upstream were in, the body not yet through.
ClosedInRelay(r) == req[r].clientClosed /\ req[r].closedAt = "relay"

AfterCompletion(r) == req[r].released >= 1 /\ req'[r].pc # "sent"

\* C16: the completion of a proxy operation happens once. Whatever comes
\* after it for the same request (the close of the client, the callback of
\* the pipeline, an error or a timeout of the upstream request) completes
\* nothing again: the outcome, the status and the end of the response stay
\* as they are, and the slot is not released again.
C16_CompletesOnce ==
    [][\A r \in Conns :
          AfterCompletion(r) =>
              /\ req'[r].released = req[r].released
              /\ req'[r].settled = req[r].settled
              /\ req'[r].fault = req[r].fault
              /\ req'[r].status = req[r].status
              /\ req'[r].ended = req[r].ended
              /\ activeRequests' = activeRequests]_vars

\* The older server after its client left in the middle of the body and
\* the failed pipeline called back: safeResolve completed the operation,
\* safeReject found it completed.
C16_CloseThenPipeline ==
    \E r \in Conns :
        /\ shape = "legacy" /\ ClosedInRelay(r)
        /\ req[r].isResolved /\ req[r].settled
        /\ req[r].upstream = "none" /\ ~req[r].pendingPipeline
        /\ req[r].fault = "" /\ req[r].released = 1

\* ------------------------------------------------------------------------
\* The health probe: the properties checked under SpecHealth
\* ------------------------------------------------------------------------

\* The request q is a probe: a GET of the proxy endpoint without a url.
IsProbe(q) ==
    /\ q.method = "GET" /\ q.target = ProxyBase
    /\ ProxyParams(q.target).url = ""

\* The handler answers the probe of connection r in this step.
ProbeAnswered(r) ==
    req[r].pc = "sent" /\ IsProbe(req[r]) /\ req'[r].pc # "sent"

\* C21: a GET of the proxy endpoint without a url parameter is answered 200
\* "healthy" with the value of activeRequests at that moment and with
\* MAX_CONCURRENT, without a token, at the admission ceiling too, and the
\* answer leaves activeRequests as it is.
C21_HealthProbe ==
    [][\A r \in Conns :
          ProbeAnswered(r) =>
              /\ req'[r].pc = "done"
              /\ req'[r].status = 200 /\ req'[r].error = "healthy"
              /\ req'[r].reply = Healthy(activeRequests)
              /\ ~req'[r].admitted
              /\ activeRequests' = activeRequests]_vars

\* The server at its ceiling has answered a probe with its load.
C21_ProbedAtTheCeiling ==
    \E r \in Conns :
        /\ shape = "server" /\ IsProbe(req[r]) /\ req[r].pc = "done"
        /\ activeRequests = MAX_CONCURRENT
        /\ req[r].status = 200
        /\ req[r].reply = Healthy(MAX_CONCURRENT)

\* ------------------------------------------------------------------------
\* The signing endpoint: the properties checked under SpecSign
\* ------------------------------------------------------------------------

\* The request q was posted to the signing endpoint and has its answer.
SignAnswered(q) ==
    q.pc = "done" /\ q.method = "POST" /\ q.target = SignTarget

\* The text is a signed URL for url: it carries url, a time, a nonce and
\* the digest of the three under the secret.
CarriesToken(text, url) ==
    LET p == ProxyParams(text)
    IN  /\ p.url = url
        /\ p.t # "" /\ p.nonce # ""
        /\ p.sig = hmacSHA256(SignedMessage(url, p.t, p.nonce), secret)

\* C22: the signing endpoint answers 500 and issues no token when the
\* secret is not configured; with a secret, 400 "Invalid request" to a body
\* that is not JSON, 400 "Invalid URL" to a url that is missing or not an
\* absolute http(s) URL, and 200 with a signed URL carrying url, t, nonce
\* and sig to an absolute http(s) URL.
C22_SigningOutcomes ==
    /\ ~SecretConfigured => signed = {}
    /\ \A r \in Conns :
          SignAnswered(req[r]) =>
              IF ~SecretConfigured
              THEN req[r].status = 500 /\ req[r].reply = ""
              ELSE IF ~req[r].body.json
              THEN req[r].status = 400 /\ req[r].error = "Invalid request"
              ELSE IF req[r].body.url = "" \/ ~isValidHttpUrl(req[r].body.url)
              THEN req[r].status = 400 /\ req[r].error = "Invalid URL"
              ELSE /\ req[r].status = 200
                   /\ CarriesToken(req[r].reply, req[r].body.url)

\* The server without STREAM_SECRET in its environment has answered a
\* signing request with a URL signed under its built-in secret.
C22_SignedWithFallback ==
    \E r \in Conns :
        /\ shape = "server" /\ ~SecretConfigured
        /\ SignAnswered(req[r]) /\ req[r].status = 200
        /\ CarriesToken(req[r].reply, "http://a/v")
        /\ signed # {}

\* ------------------------------------------------------------------------
\* Relayed headers: the properties checked under SpecRelay
\* ------------------------------------------------------------------------

\* The response of q is the upstream's: an accepted request answered with
\* the status of its upstream and no error text of the proxy.
Proxied(q) == q.admitted /\ q.error = "" /\ q.status = q.origin.status

\* The allow-list as the contract states it.
AllowList == {"content-type", "content-length", "content-range", "accept-ranges"}

\* C12: of the headers of the upstream only content-type, content-length,
\* content-range and accept-ranges reach the client: every other header of a
\* proxied response is what the proxy sets by itself, whatever the upstream
\* sent under that name (set-cookie is absent), and content-type and
\* content-length are the upstream's whenever the upstream sent them.
C12_HeaderAllowList ==
    \A r \in Conns :
        Proxied(req[r]) =>
            /\ \A h \in HeaderNames \ AllowList :
                   req[r].headers[h] = DefaultHeaders[h]
            /\ \A h \in {"content-type", "content-length"} :
                   req[r].origin.headers[h] # "" =>
                       req[r].headers[h] = req[r].origin.headers[h]

\* An upstream answered with a cookie, a content type and a length, and the
\* response carries the type and the length without the cookie.
C12_CookieDropped ==
    \E r \in Conns :
        /\ Proxied(req[r])
        /\ req[r].origin.headers["set-cookie"] = "x"
        /\ req[r].headers["set-cookie"] = ""
        /\ req[r].headers["content-type"] = "video/mp4"
        /\ req[r].headers["content-length"] = "100"

\* C13: every proxied response carries Accept-Ranges: bytes and
\* Cache-Control: no-cache, whatever the upstream sent.
C13_ForcedHeaders ==
    \A r \in Conns :
        Proxied(req[r]) =>
            /\ req[r].headers["accept-ranges"] = "bytes"
            /\ req[r].headers["cache-control"] = "no-cache"

\* The server relays the accept-ranges of an upstream that sent "none" in
\* place of its own, and no Cache-Control at all.
C13_UpstreamRangesWin ==
    \E r \in Conns :
        /\ shape = "server"
        /\ Proxied(req[r])
        /\ req[r].origin.headers["accept-ranges"] = "none"
        /\ req[r].headers["accept-ranges"] = "none"
        /\ req[r].headers["cache-control"] = ""

\* The request of connection r has been answered from its upstream or
\* turned away by the proxy after being accepted.
Answered(r) == req[r].admitted /\ req[r].status # 0

\* C14: a HEAD request is answered with the status and the headers of the
\* GET request for the same token and the same upstream, and no body of the
\* upstream is relayed for it.
C14_HeadLikeGet ==
    /\ \A g, h \in Conns :
           ( /\ Answered(g) /\ Answered(h)
             /\ req[g].method = "GET" /\ req[h].method = "HEAD"
             /\ req[g].target = req[h].target
             /\ req[g].origin = req[h].origin
             /\ req[g].chain = req[h].chain )
           => /\ req[g].status = req[h].status
              /\ req[g].headers = req[h].headers
    /\ \A h \in Conns :
           req[h].method = "HEAD" => ~req[h].relayed /\ req[h].pc # "relay"

\* A GET and a HEAD for the same token and upstream, both answered 206 from
\* it, the body relayed for the GET alone.
C14_HeadBesideGet ==
    \E g, h \in Conns :
        /\ Proxied(req[g]) /\ Proxied(req[h])
        /\ req[g].method = "GET" /\ req[h].method = "HEAD"
        /\ req[g].target = req[h].target
        /\ req[g].origin = req[h].origin
        /\ req[g].status = 206 /\ req[h].status = 206
        /\ req[g].relayed /\ ~req[h].relayed
        /\ req[h].pc = "done"

\* ------------------------------------------------------------------------
\* Signing and verification: the properties checked under SpecVerify
\* ------------------------------------------------------------------------

\* The handler has decided on the request q.
Decided(q) == q.pc \in {"headers", "relay", "done"}

\* C3: the signed URL of a token issued at t0 for a valid http(s) URL,
\* presented as issued at t1 to the verifier with the signer's secret, is
\* accepted when |t1 - t0| <= MAX_SKEW_SECONDS and is answered 403 Link
\* expired when |t1 - t0| > MAX_SKEW_SECONDS.
C3_RoundTrip ==
    \A r \in Conns : \A tok \in signed :
        (req[r].target = tok.signedUrl /\ Decided(req[r])) =>
            IF Abs(req[r].arrivedAt - tok.issuedAt) <= MAX_SKEW_SECONDS
            THEN req[r].admitted /\ req[r].fetches >= 1
            ELSE /\ ~req[r].admitted /\ req[r].fetches = 0
                 /\ req[r].status = 403 /\ req[r].error = "Link expired"

\* A token for a URL with a query of its own, accepted exactly
\* MAX_SKEW_SECONDS before the time it was signed at.
C3_AcceptedAtSkew ==
    \E r \in Conns : \E tok \in signed :
        /\ tok.url = "https://b.c/v?x=1&y=2"
        /\ req[r].target = tok.signedUrl
        /\ req[r].admitted
        /\ tok.issuedAt - req[r].arrivedAt = MAX_SKEW_SECONDS

Fields == {"url", "t", "nonce", "sig"}

\* The request q presents some issued token with exactly one value changed.
Tampered(q) ==
    \E tok \in signed :
        Cardinality({f \in Fields :
                        ProxyParams(q.target)[f] # TokenValues(tok)[f]}) = 1

\* C4: a request that presents an issued token with one of url, t, nonce,
\* sig changed and the other three as issued is never admitted, has no
\* upstream fetch issued for it, and is answered 403 or 400.
C4_TamperRejected ==
    \A r \in Conns :
        (req[r].pc # "new" /\ Tampered(req[r])) =>
            /\ ~req[r].admitted
            /\ req[r].fetches = 0 /\ req[r].upstream = "none"
            /\ Decided(req[r]) => req[r].status \in {400, 403}

\* A fresh token with another nonce, turned away for its signature.
C4_NonceChanged ==
    \E r \in Conns : \E tok \in signed :
        /\ Tampered(req[r])
        /\ ProxyParams(req[r].target).nonce # tok.nonce
        /\ ProxyParams(req[r].target).nonce # ""
        /\ req[r].status = 403 /\ req[r].error = "Invalid signature"

\* The four checks of the verifier in the order the claim gives them, each
\* with the answer of its failure. The edge function counts a secret that
\* is not configured with the missing parameters.
Checks(key, p, clock) ==
    << [fails  |-> key = "" \/ p.t = "" \/ p.nonce = "" \/ p.sig = "",
        status |-> 403, error |-> "Unauthorized"],
       [fails  |-> ~isValidHttpUrl(p.url),
        status |-> 400, error |-> "Invalid URL"],
       [fails  |-> Abs(clock - parseInt(p.t).value) > MAX_SKEW_SECONDS,
        status |-> 403, error |-> "Link expired"],
       [fails  |-> ~SignatureMatches(key, p.url, p.t, p.nonce, p.sig),
        status |-> 403, error |-> "Invalid signature"] >>

Failing(checks) == {k \in 1..Len(checks) : checks[k].fails}

FirstFailing(checks) ==
    CHOOSE k \in Failing(checks) : \A j \in Failing(checks) : k <= j

Verified(q) ==
    /\ Decided(q) /\ ProxyParams(q.target).url # ""
    /\ q.method # "POST" /\ q.status # 503

C24_SignedUrlUsedOnce ==
    [][\A r \in Conns :
          Admitted(r) =>
              ~\E u \in Conns \ {r} :
                  req[u].admitted /\ req[u].target = req[r].target]_vars

\* The same signed URL admitted for two clients, nonce and all.
C24_NonceSeenTwice ==
    \E r, u \in Conns :
        /\ r # u /\ req[r].admitted /\ req[u].admitted
        /\ req[r].target = req[u].target
        /\ ProxyParams(req[r].target).nonce = "a1"

\* ------------------------------------------------------------------------
\* The two deployments side by side: the properties checked under Spec
\* ------------------------------------------------------------------------

\* The request c as a client sends it to the endpoint `base`: the same
\* method, body and query under the path of that deployment.
Rebased(c, base) == [c EXCEPT !.target = base \o "?" \o Query(c.target)]

\* What a handler ends up deciding for a proxy request: the status and the
\* text of its answer, or that it admits the request (status 0).
Outcome(d) == [admit |-> d.kind = "admit", status |-> d.status, error |-> d.error]

\* The Node server's decision for the request c.
ServerOutcome(c, clock, active, key) ==
    Outcome(ServerRoute(Rebased(c, "/proxy"), clock, active, key))

\* The edge function's decision for the request c, the comparison after
\* its digest included.
EdgeOutcome(c, clock, active, key) ==
    LET e == Rebased(c, "/api/server")
        d == EdgeRoute(e, clock, active, key)
        p == ProxyParams(e.target)
    IN  IF d.kind # "digest" THEN Outcome(d)
        ELSE IF SignatureMatches(key, p.url, p.t, p.nonce, p.sig)
        THEN Outcome(Decision("admit", 0, ""))
        ELSE Outcome(Answer(403, "Invalid signature"))

\* A proxy request waits for its handler.
ProxyPending(q) ==
    q.pc = "sent" /\ q.method = "GET" /\ ProxyParams(q.target).url # ""

\* C25: with the same secret, for the same proxy request at the same clock
\* and under the same load, the Node server and the edge function decide
\* alike: both admit it, or both answer with the same status.
C25_SameDecision ==
    \A r \in Conns :
        ProxyPending(req[r]) =>
            LET a == ServerOutcome(req[r], now, activeRequests, secret)
                b == EdgeOutcome(req[r], now, activeRequests, secret)
            IN  a.admit = b.admit /\ a.status = b.status

\* A token one deployment has signed, which the other admits under the same
\* secret when it has a slot free.
C25_TokenCrosses ==
    \E tok \in signed :
        /\ secret # ""
        /\ ServerOutcome(Request("GET", tok.signedUrl, 0), now, 0, secret).admit
        /\ EdgeOutcome(Request("GET", tok.signedUrl, 0), now, 0, secret).admit

\* ------------------------------------------------------------------------
\* Missing parameters: the properties checked under SpecVerify
\* ------------------------------------------------------------------------

\* The proxy request q lacks one of the parameters of the signature.
Unsigned(q) ==
    LET p == ProxyParams(q.target)
    IN  p.url # "" /\ (p.t = "" \/ p.nonce = "" \/ p.sig = "")

\* C26: a proxy request whose t, nonce or sig is missing is answered with
\* status 401.
C26_MissingParametersAre401 ==
    \A r \in Conns :
        (Verified(req[r]) /\ Unsigned(req[r])) => req[r].status = 401

\* A request without a nonce answered 403 Unauthorized.
C26_Answered403 ==
    \E r \in Conns :
        /\ Verified(req[r]) /\ ProxyParams(req[r].target).nonce = ""
        /\ req[r].status = 403 /\ req[r].error = "Unauthorized"

\* ------------------------------------------------------------------------
\* Pages of HTML: the properties checked under SpecRelay
\* ------------------------------------------------------------------------

\* The upstream of the request q answers with a page of HTML.
UpstreamIsHtml(q) == q.origin.headers["content-type"] = "text/html"

\* C27: the answer of an upstream whose content type is text/html is
\* never relayed: the proxy answers 502 "Content not streamable" in its
\* place.
C27_HtmlNotStreamable ==
    \A r \in Conns :
        (Answered(r) /\ UpstreamIsHtml(req[r])) =>
            /\ ~req[r].relayed
            /\ req[r].status = 502
            /\ req[r].error = "Content not streamable"

\* The Node server relays a page of HTML with the upstream's status and
\* content type.
C27_HtmlRelayed ==
    \E r \in Conns :
        /\ shape = "server" /\ UpstreamIsHtml(req[r])
        /\ req[r].relayed /\ req[r].status = 200
        /\ req[r].headers["content-type"] = "text/html"

\* ------------------------------------------------------------------------
\* The player's loading timeout: the properties checked under SpecPlayer
\* ------------------------------------------------------------------------

\* The video of the current load has not loaded: no metadata, no data, no
\* error of the element, and no event of an earlier source is still due.
NotLoaded ==
    /\ player.pc = "loading" /\ player.readyState = 0 /\ ~player.mediaError
    /\ "abort" \notin player.queued

\* C28: after loadVideo has set the source, while the video has not
\* loaded, the loading timer stays set until LOADING_TIMEOUT_MS have
\* passed (the start of loading does not cancel it), and once more than
\* that has passed the timer has fired and the error "Loading timeout -
\* video failed to load" is shown.
C28_LoadingTimeout ==
    NotLoaded =>
        /\ player.elapsed < LOADING_TIMEOUT_MS => player.timer = "armed"
        /\ player.elapsed > LOADING_TIMEOUT_MS =>
               /\ player.timer = "fired"
               /\ player.errorShown /\ player.errorText = TimeoutMessage

\* A video that started loading and then stalled: past the timeout nothing
\* has loaded, the timer was cleared by 'loadstart', and no error is shown.
C28_StuckWithoutError ==
    /\ NotLoaded /\ player.started
    /\ player.elapsed > LOADING_TIMEOUT_MS
    /\ player.timer = "cleared" /\ player.handle
    /\ ~player.errorShown

\* ------------------------------------------------------------------------
\* The upstream method: the properties checked under SpecSettle
\* ------------------------------------------------------------------------

\* C29: on every hop the upstream request is a HEAD exactly when the
\* client's request is a HEAD, and a GET for every other method of the
\* client.
C29_MethodNormalized ==
    \A r \in Conns :
        /\ req[r].fetches >= 1 => req[r].upMethods # {}
        /\ \A um \in req[r].upMethods :
               (um = "HEAD" <=> req[r].method = "HEAD")
               /\ (req[r].method # "HEAD" => um = "GET")

\* A POST of a signed URL whose upstream redirected: both upstream requests
\* were GETs.
C29_PostFetchedWithGet ==
    \E r \in Conns :
        /\ req[r].method = "POST" /\ req[r].admitted
        /\ req[r].redirects >= 1 /\ req[r].fetches >= 2
        /\ req[r].upMethods = {"GET"}

\* ------------------------------------------------------------------------
\* The timeout of the upstream: the properties checked under SpecTimeout
\* ------------------------------------------------------------------------

\* The operation has ended with the error of the timeout.
TimedOut(q) == q.fault \in {"Upstream timeout", "Timeout", "Request timeout"}

\* The handler waits for the upstream with a timeout armed.
Awaiting(q) ==
    /\ q.upstream = "open"
    /\ \/ q.pc = "headers"
       \/ q.pc = "relay" /\ shape # "edge"

\* C30: every upstream request, the first and the one of each redirect,
\* has REQUEST_TIMEOUT_MS of its own: what it has waited and what is left
\* of its timeout make REQUEST_TIMEOUT_MS, whatever the requests before it
\* have waited. The handler never waits past it, and an operation that
\* ended with the timeout error had waited the whole REQUEST_TIMEOUT_MS on
\* its last request, which is aborted, and is over.
C30_TimeoutPerAttempt ==
    \A r \in Conns :
        LET q == req[r]
        IN  /\ serverUp /\ Awaiting(q) =>
                   /\ q.timer > 0
                   /\ q.waited + q.timer = REQUEST_TIMEOUT_MS
            /\ q.waited <= REQUEST_TIMEOUT_MS
            /\ TimedOut(q) =>
                   /\ q.waited = REQUEST_TIMEOUT_MS
                   /\ q.elapsed >= REQUEST_TIMEOUT_MS
                   /\ q.pc = "done" /\ q.upstream # "open" /\ q.timer = 0

\* The upstream was slow before its redirect and silent after it: the
\* operation ended with the timeout error after more than one
\* REQUEST_TIMEOUT_MS in all.
C30_SecondHopTimedOut ==
    \E r \in Conns :
        /\ TimedOut(req[r]) /\ req[r].redirects >= 1 /\ req[r].fetches >= 2
        /\ req[r].waited = REQUEST_TIMEOUT_MS
        /\ req[r].elapsed > REQUEST_TIMEOUT_MS

\* ------------------------------------------------------------------------
\* The hops of a redirect chain: the properties checked under SpecFetch
\* ------------------------------------------------------------------------

\* The upstream requests of q that are neither answered to the end nor
\* given up: the hops before the last that were not abandoned, and the last
\* while it is open.
UpstreamsInFlight(q) ==
    IF q.fetches = 0 THEN 0
    ELSE (q.fetches - 1 - q.abandoned) + (IF q.upstream = "open" THEN 1 ELSE 0)

\* C31: the hops of one request come one after the other: each upstream
\* request after the first follows a redirect answer, whose request was
\* abandoned before, so that a client request never has more than one
\* upstream request in flight.
C31_HopsSequential ==
    \A r \in Conns :
        /\ UpstreamsInFlight(req[r]) \in {0, 1}
        /\ req[r].fetches <= req[r].redirects + 1
        /\ req[r].fetches >= 1 => req[r].abandoned = req[r].fetches - 1

\* The third hop of a chain is awaited, the two before it abandoned.
C31_ThirdHopAlone ==
    \E r \in Conns :
        /\ req[r].fetches = 3 /\ req[r].redirects = 2 /\ req[r].abandoned = 2
        /\ req[r].pc = "headers" /\ req[r].upstream = "open"
        /\ UpstreamsInFlight(req[r]) = 1

\* ------------------------------------------------------------------------
\* The headers of the upstream requests: the properties checked under
\* SpecSettle
\* ------------------------------------------------------------------------

\* The URL of the i-th upstream request of q, from the URL the client asked
\* for and the Locations of the redirects before it.
RECURSIVE TargetOfHop(_, _)
TargetOfHop(q, i) ==
    IF i = 1 THEN ProxyParams(q.target).url
    ELSE ResolveLocation(LocationOf(i - 1), TargetOfHop(q, i - 1))

\* C32: every upstream request of a chain carries the Referer made of the
\* scheme and the host of its own URL, and the Range header of the client
\* as the client sent it, or none when the client sent none.
C32_RefererAndRange ==
    \A r \in Conns : \A i \in 1..Len(req[r].sent) :
        LET url == TargetOfHop(req[r], i)
        IN  /\ req[r].sent[i].url = url
            /\ req[r].sent[i].referer =
                   Scheme(url) \o "://" \o URLHost(url) \o "/"
            /\ req[r].sent[i].range = req[r].range

\* The older server has followed a redirect to a host with a port: the
\* Referer of its second request names the host without the port.
C32_RefererWithoutPort ==
    \E r \in Conns :
        /\ shape = "legacy" /\ Len(req[r].sent) = 2
        /\ req[r].sent[2].url = "https://b:8443/w"
        /\ req[r].sent[2].referer = "https://b/"

\* ------------------------------------------------------------------------
\* The counter of the requests in progress: the properties checked under
\* SpecSettle
\* ------------------------------------------------------------------------

\* C33: activeRequests is never negative: through every order of response,
\* redirect, timeout, error, end of the pipeline and close of the client,
\* a request releases at most the one slot it took.
C33_CounterNeverNegative ==
    /\ activeRequests >= 0
    /\ \A r \in Conns :
           req[r].released <= (IF req[r].admitted THEN 1 ELSE 0)

\* A request timed out, the error of its destroyed upstream request came
\* after, and its client closed: the slot was released once and the counter
\* is back at 0.
C33_ReleasedOnceAfterTimeout ==
    \E r \in Conns :
        /\ req[r].admitted /\ req[r].released = 1
        /\ req[r].fault \in {"Upstream timeout", "Request timeout", "Timeout"}
        /\ req[r].upstream # "open" /\ ~req[r].pendingError
        /\ shape # "edge" => req[r].clientClosed
        /\ activeRequests = 0

\* ------------------------------------------------------------------------
\* The requests that leave the counter alone: the properties checked under
\* SpecFrame
\* ------------------------------------------------------------------------

\* The handler answers the request of r in this step without accepting it
\* for the proxy.
AnsweredUnaccepted(r) ==
    /\ req[r].pc \in {"sent", "hmac"}
    /\ req'[r].pc = "done" /\ ~req'[r].admitted

\* C34: only the accepted proxy requests change activeRequests: the step
\* that answers a preflight, a health probe, a signing request, a request
\* for a static file, a request the verifier refuses (403, 400) or one
\* turned away for overload (503) leaves it as it was, and every step that
\* changes it is a step of an accepted proxy request.
C34_OnlyAcceptedChange ==
    [][/\ \A r \in Conns : AnsweredUnaccepted(r) => activeRequests' = activeRequests
       /\ activeRequests' # activeRequests =>
              \E r \in Conns : req'[r] # req[r] /\ req'[r].admitted]_vars

\* A request was refused by the verifier while another was in flight: the
\* counter still counts the one in flight.
C34_RefusedBesideOneInFlight ==
    \E r, u \in Conns :
        /\ r # u
        /\ req[u].admitted /\ req[u].pc \in {"headers", "relay"}
        /\ req[r].pc = "done" /\ ~req[r].admitted /\ req[r].status \in {400, 403}
        /\ req[r].arrivedAt >= req[u].arrivedAt
        /\ activeRequests = 1

\* ------------------------------------------------------------------------
\* The requests that reach the upstream: the properties checked under
\* SpecFrame
\* ------------------------------------------------------------------------

\* The request q, read at `clock`, has the four values of a token, a URL of
\* http or https, an instant within the window and the digest of its own
\* three values under the secret.
PassesVerifier(q, clock) ==
    LET p == ProxyParams(q.target)
    IN  /\ secret # "" /\ p.t # "" /\ p.nonce # "" /\ p.sig # ""
        /\ isValidHttpUrl(p.url)
        /\ ~LinkExpired(clock, parseInt(p.t))
        /\ p.sig = hmacSHA256(p.url \o "|" \o p.t \o "|" \o p.nonce, secret)

Quiescent == \A r \in Conns : Free(req[r])

\* C36: every accepted request releases its slot in the end, when every
\* upstream request is answered, fails or times out and every client reads
\* to the end or leaves; and when no request is in progress any more
\* activeRequests is 0 again.
C36_SlotReleasedInTheEnd ==
    /\ [](serverUp /\ Quiescent => activeRequests = 0)
    /\ \A r \in {1, 2} :
           (req[r].admitted /\ req[r].released = 0)
               ~> (req[r].released = 1 \/ ~serverUp)

\* Two accepted requests are over, one that timed out and one whose client
\* left, and the counter is 0.
C36_BothReleased ==
    \E r, u \in Conns :
        /\ r # u /\ Quiescent /\ activeRequests = 0
        /\ req[r].admitted /\ req[r].released = 1
        /\ req[r].fault \in {"Upstream timeout", "Request timeout", "Timeout"}
        /\ req[u].admitted /\ req[u].released = 1 /\ req[u].clientClosed

\* ------------------------------------------------------------------------
\* No hop after the client has left
\* ------------------------------------------------------------------------

\* C37: once the client of a proxy request has disconnected no further
\* upstream request is sent for it, and a disconnect while a hop awaits its
\* response headers cancels that hop: the upstream request is open no more.
C37_NoHopAfterDisconnect ==
    [][\A r \in Conns :
          /\ (req[r].clientClosed /\ req'[r].clientClosed)
                 => req'[r].sent = req[r].sent
          /\ (~req[r].clientClosed /\ req'[r].clientClosed
                 /\ req[r].pc = "headers")
                 => req'[r].upstream # "open"]_vars

\* The same for the two Node servers, which listen to 'close'.
C37_NodeStopsAtDisconnect ==
    [][shape # "edge" =>
          \A r \in Conns :
              /\ (req[r].clientClosed /\ req'[r].clientClosed)
                     => req'[r].sent = req[r].sent
              /\ (~req[r].clientClosed /\ req'[r].clientClosed
                     /\ req[r].pc = "headers")
                     => req'[r].upstream # "open"]_vars

\* The client left while the second hop awaited its headers, and the hop
\* was cancelled.
C37_SecondHopCancelled ==
    \E r \in Conns :
        /\ shape # "edge"
        /\ req[r].clientClosed /\ req[r].closedAt = "headers"
        /\ req[r].redirects = 1
        /\ Len(req[r].sent) = 2
        /\ req[r].upstream # "open"

\* The edge function fetched two hops after its client had left: the client
\* went away during the digest, before the first fetch.
C37_EdgeHopAfterDisconnect ==
    \E r \in Conns :
        /\ shape = "edge"
        /\ req[r].clientClosed /\ req[r].closedAt = "hmac"
        /\ Len(req[r].sent) = 2

\* ------------------------------------------------------------------------
\* The order of overlapping loads: the properties checked under SpecPlayer
\* ------------------------------------------------------------------------

\* Every loadVideo call has finished, the last of them by setting a source.
LoadsFinished ==
    /\ player.awaiting = <<>> /\ player.pc = "loading"
    /\ ~player.errorShown

\* The source the most recent loadVideo call asked for.
RequestedSource ==
    IF player.useProxy THEN getSignedUrl(player.input) ELSE player.input

\* C39: once every loadVideo call has finished, the source of the video
\* and currentUrl are those of the URL requested most recently, in whatever
\* order the signing responses arrived.
C39_LatestLoadWins ==
    LoadsFinished =>
        /\ player.src = RequestedSource
        /\ player.currentUrl = RequestedSource

\* Both loads were through the proxy and have finished, and the video plays
\* the URL that was asked for first: its signed URL arrived last.
C39_EarlierLoadWins ==
    /\ LoadsFinished /\ player.useProxy
    /\ player.input = "http://b/v"
    /\ player.src = getSignedUrl("http://a/v")
    /\ player.currentUrl = player.src

\* ------------------------------------------------------------------------
\* The timestamp of an admitted request: the properties checked under
\* SpecFrame
\* ------------------------------------------------------------------------

\* The text t denotes an integer: digits and nothing else.
DenotesInteger(t) ==
    /\ t # ""
    /\ \A i \in 1..Len(t) : IsDigit(CharAt(t, i))

\* C38: a request admitted by a handler that verifies, read at the instant
\* `arrivedAt`, has a t that denotes an integer timestamp no further than
\* MAX_SKEW_SECONDS from that instant: a t that is no number, or a number
\* followed by other characters, is never admitted, whatever its signature.
C38_AdmittedWithTimestamp ==
    \A r \in Conns :
        (shape # "legacy" /\ req[r].admitted) =>
            LET t == ProxyParams(req[r].target).t
            IN  /\ DenotesInteger(t)
                /\ Abs(req[r].arrivedAt - parseInt(t).value) <= MAX_SKEW_SECONDS

\* A request whose t is "abc", signed under the secret, was admitted and
\* answered 200.
C38_TextAdmitted ==
    \E r \in Conns :
        /\ shape # "legacy" /\ req[r].admitted /\ req[r].status = 200
        /\ ProxyParams(req[r].target).t = "abc"

\* A request whose t is a timestamp followed by "abc" was admitted.
C38_TrailingTextAdmitted ==
    \E r \in Conns :
        /\ shape # "legacy" /\ req[r].admitted /\ req[r].status = 200
        /\ ProxyParams(req[r].target).t = NumberToString(Epoch) \o "abc"

\* The same property for the requests whose t denotes an integer.
C38_IntegerWithinWindow ==
    \A r \in Conns :
        LET t == ProxyParams(req[r].target).t
        IN  (shape # "legacy" /\ req[r].admitted /\ DenotesInteger(t)) =>
                Abs(req[r].arrivedAt - parseInt(t).value) <= MAX_SKEW_SECONDS

====
